---- MODULE Spec2Model ----
(***************************************************************************)
(* A model of file-clean-rust: the glob-to-regex compiler                  *)
(* (src/fnmatch_regex/glob.rs) and the classify / plan / execute pipeline  *)
(* of main (src/main.rs).                                                  *)
(*                                                                         *)
(* Characters are their code points; strings are sequences of code points. *)
(* Two specifications share the variables: GlobSpec runs the glob parser   *)
(* over every pattern of each of its inputs, Spec runs main over           *)
(* every small tree, configuration order and flag combination.             *)
(***************************************************************************)
EXTENDS Integers, Sequences, FiniteSets, TLC

VARIABLES
    \* ---- GlobIterator (glob.rs:321-326) and what glob_to_regex_string collects
    pattern,        \* the characters pattern.next() has handed out so far
    state,          \* GlobIterator.state
    out,            \* the fragments collected so far (glob.rs:605-609)
    error,          \* the Err(..) the iterator returned, if any
    last,           \* observation of the last transition: handler, character, fragment
    input,          \* what the pattern is drawn from: its characters, its greatest length
    \* ---- main (main.rs:278-500)
    app_options,    \* AppOptions: the flags and the configuration file
    hash_order,     \* iteration order of the remove_hash HashMap
    fs,             \* the filesystem below the target path: path -> entry
    fs0,            \* the filesystem as it was when main started
    walk,           \* the entries WalkDir yields, in order
    pos,            \* index of the next entry of walk / of the next planned item
    operation_list, \* Vec<(PathBuf, String, Operation)>
    executed,       \* observation: the delete / rename steps performed so far
    pc              \* where main is: config, walk, delete, rename, done, failed, panic

globVars == <<pattern, state, out, error, last, input>>
mainVars == <<app_options, hash_order, fs, fs0, walk, pos, operation_list, executed, pc>>
vars == <<pattern, state, out, error, last, input,
          app_options, hash_order, fs, fs0, walk, pos, operation_list, executed, pc>>

(***************************************************************************)
(* Characters                                                              *)
(***************************************************************************)
BANG == 33
DOLLAR == 36
LPAREN == 40
RPAREN == 41
STAR == 42
PLUS == 43
COMMA == 44
DASH == 45
DOT == 46
SLASH == 47
ZERO == 48
QMARK == 63
LBRACKET == 91
BACKSLASH == 92
RBRACKET == 93
CARET == 94
LOWER_A == 97
LOWER_N == 110
LBRACE == 123
PIPE == 124
RBRACE == 125

(***************************************************************************)
(* Bounds                                                                  *)
(***************************************************************************)
\* longest glob pattern fed to the parser
MaxPatLen == 5
\* longest text a compiled regex is tried on
MaxTextLen == 3

\* the characters a glob pattern is drawn from
GlobChars ==
    {BANG, STAR, DASH, SLASH, QMARK, LBRACKET, BACKSLASH, RBRACKET, CARET,
     LOWER_A, LBRACE}

\* longest pattern over ClassChars
MaxClassPatLen == 6
\* the characters of the patterns that exercise classes, negation and ranges
\* (`*` < `/` < `[`, so the range `*-[` spans the slash)
ClassChars == {BANG, STAR, DASH, SLASH, LBRACKET, RBRACKET}

\* longest pattern over LiteralChars
MaxLiteralPatLen == 4
\* the characters of the patterns that exercise literals and alternations
LiteralChars ==
    {DOLLAR, LPAREN, RPAREN, PLUS, COMMA, DOT, CARET, LOWER_A, LBRACE, PIPE, RBRACE}

\* longest pattern over RangeChars
MaxRangePatLen == 7
\* the characters of the patterns that put a member next to a range starting
\* with `-` (`!` < `-` < `/` < `a`, so the range `--a` spans the slash)
RangeChars == {BANG, DASH, LBRACKET, RBRACKET, LOWER_A}

\* longest pattern over EscapeChars
MaxEscapePatLen == 3
\* the characters of the patterns that exercise top-level escapes: letters with
\* a control-character meaning and regex metacharacters
EscapeChars == {LPAREN, RPAREN, DOT, BACKSLASH, LOWER_A, LOWER_N, PIPE, RBRACE}

\* the inputs the parser is run on
Inputs ==
    { [chars |-> GlobChars, max_len |-> MaxPatLen],
      [chars |-> ClassChars, max_len |-> MaxClassPatLen],
      [chars |-> LiteralChars, max_len |-> MaxLiteralPatLen],
      [chars |-> RangeChars, max_len |-> MaxRangePatLen],
      [chars |-> EscapeChars, max_len |-> MaxEscapePatLen] }

\* the characters of the texts a compiled regex is tried on
TextChars == {DASH, DOT, SLASH, ZERO, CARET, LOWER_A}

RECURSIVE SeqsUpTo(_, _)
SeqsUpTo(S, n) ==
    IF n = 0 THEN {<<>>}
    ELSE LET shorter == SeqsUpTo(S, n - 1)
         IN  shorter \cup {Append(s, c) : s \in {t \in shorter : Len(t) = n - 1}, c \in S}

Texts == SeqsUpTo(TextChars, MaxTextLen)

(***************************************************************************)
(* Helpers on sequences                                                    *)
(***************************************************************************)
RECURSIVE Concat(_)
Concat(ss) ==
    IF ss = <<>> THEN <<>> ELSE Head(ss) \o Concat(Tail(ss))

Contains(s, c) == \E i \in 1..Len(s) : s[i] = c

\* lexicographic order on sequences of code points (Rust's Ord on str / tuples)
RECURSIVE LexLess(_, _)
LexLess(s, t) ==
    IF t = <<>> THEN FALSE
    ELSE IF s = <<>> THEN TRUE
    ELSE IF Head(s) # Head(t) THEN Head(s) < Head(t)
    ELSE LexLess(Tail(s), Tail(t))

\* sorted_unstable().dedup(): the elements of S in increasing order, once each
RECURSIVE SortedSeq(_)
SortedSeq(S) ==
    IF S = {} THEN <<>>
    ELSE LET m == CHOOSE x \in S : \A y \in S : x = y \/ LexLess(x, y)
         IN  <<m>> \o SortedSeq(S \ {m})

(***************************************************************************)
(* glob.rs: class items, escaping                                          *)
(***************************************************************************)
Char(c) == [t |-> "Char", a |-> c, b |-> c]
Range(s, e) == [t |-> "Range", a |-> s, b |-> e]

NewAcc(neg, its) == [negated |-> neg, items |-> its]

St(name, acc, start, current, gathered) ==
    [name |-> name, acc |-> acc, start |-> start, current |-> current,
     gathered |-> gathered]

Plain(name) == St(name, NewAcc(FALSE, <<>>), 0, <<>>, <<>>)
InClass(name, acc) == St(name, acc, 0, <<>>, <<>>)
InAlt(name, current, gathered) == St(name, NewAcc(FALSE, <<>>), 0, current, gathered)

NoError == [kind |-> "None", a |-> 0, b |-> 0]
Err(kind) == [kind |-> kind, a |-> 0, b |-> 0]
\* an error value built with its two characters exchanged
swapped_err(kind, a, b) == [kind |-> kind, a |-> b, b |-> a]

Err2(kind, a, b) == [kind |-> kind, a |-> a, b |-> b]

\* a class member written without escaping
no_escape(chr) == <<chr>>

escape_in_class(chr) ==
    IF chr = RBRACKET \/ chr = BACKSLASH THEN <<BACKSLASH, chr>> ELSE <<chr>>

escape(chr) ==
    IF chr \in {LBRACKET, LBRACE, LPAREN, PIPE, CARET, DOLLAR, DOT, STAR, QMARK,
                PLUS, BACKSLASH}
    THEN <<BACKSLASH, chr>>
    ELSE <<chr>>

map_letter_escape(chr) ==
    CASE chr = 97 -> 7
      [] chr = 98 -> 8
      [] chr = 101 -> 27
      [] chr = 102 -> 12
      [] chr = 110 -> 10
      [] chr = 114 -> 13
      [] chr = 116 -> 9
      [] chr = 118 -> 11
      [] OTHER -> chr

escape_special(chr) == escape(map_letter_escape(chr))

(***************************************************************************)
(* glob.rs: slash handling and close_class                                 *)
(***************************************************************************)
ExcIter_next(cls) ==
    IF cls.t = "Char" THEN (IF cls.a = SLASH THEN <<>> ELSE <<cls>>)
    ELSE IF cls.a = DOT /\ cls.b = SLASH THEN <<Char(DOT)>>
    ELSE IF cls.b = SLASH THEN <<Range(cls.a, DOT)>>
    ELSE IF cls.a = SLASH /\ cls.b = ZERO THEN <<Char(ZERO)>>
    ELSE IF cls.a = SLASH THEN <<Range(ZERO, cls.b)>>
    ELSE IF cls.a > SLASH \/ cls.b < SLASH THEN <<cls>>
    ELSE << IF cls.a = DOT THEN Char(DOT) ELSE Range(cls.a, DOT),
            IF cls.b = ZERO THEN Char(ZERO) ELSE Range(ZERO, cls.b) >>

handle_slash_exclude(acc) ==
    [acc EXCEPT !.items = Concat([i \in 1..Len(acc.items) |-> ExcIter_next(acc.items[i])])]

handle_slash_include(acc) ==
    LET slash_found ==
            \E i \in 1..Len(acc.items) :
                IF acc.items[i].t = "Char" THEN acc.items[i].a = SLASH
                ELSE acc.items[i].a <= SLASH /\ acc.items[i].b >= SLASH
    IN  IF slash_found THEN acc
        ELSE [acc EXCEPT !.items = Append(acc.items, Char(SLASH))]

handle_slash(acc) ==
    IF acc.negated THEN handle_slash_include(acc) ELSE handle_slash_exclude(acc)

\* a bracket expression with the members as they were written
written_order(glob_acc) ==
    LET acc == handle_slash(glob_acc)
        item(i) == IF acc.items[i].t = "Char" THEN escape_in_class(acc.items[i].a)
                   ELSE escape_in_class(acc.items[i].a) \o <<DASH>>
                            \o escape_in_class(acc.items[i].b)
    IN  <<LBRACKET>> \o (IF acc.negated THEN <<CARET>> ELSE <<>>)
            \o Concat([i \in 1..Len(acc.items) |-> item(i)]) \o <<RBRACKET>>

close_class(glob_acc) ==
    LET acc == handle_slash(glob_acc)
        idx == 1..Len(acc.items)
        chars_vec == {acc.items[i].a : i \in {j \in idx : acc.items[j].t = "Char"}}
        classes_vec ==
            {<<acc.items[i].a, acc.items[i].b>> : i \in {j \in idx : acc.items[j].t = "Range"}}
        has_dash == DASH \in chars_vec
        sorted_chars == SortedSeq({<<c>> : c \in chars_vec \ {DASH}})
        chars == Concat([i \in 1..Len(sorted_chars) |-> escape_in_class(sorted_chars[i][1])])
        sorted_classes == SortedSeq(classes_vec)
        classes ==
            Concat([i \in 1..Len(sorted_classes) |->
                        escape_in_class(sorted_classes[i][1]) \o <<DASH>>
                            \o escape_in_class(sorted_classes[i][2])])
    IN  <<LBRACKET>> \o (IF acc.negated THEN <<CARET>> ELSE <<>>)
            \o chars \o classes \o (IF has_dash THEN <<DASH>> ELSE <<>>) \o <<RBRACKET>>

RECURSIVE JoinWith(_, _)
JoinWith(ss, sep) ==
    IF ss = <<>> THEN <<>>
    ELSE IF Len(ss) = 1 THEN Head(ss)
    ELSE Head(ss) \o sep \o JoinWith(Tail(ss), sep)

close_alternate(gathered) ==
    LET items ==
            {Concat([k \in 1..Len(gathered[i]) |-> escape(gathered[i][k])]) :
                i \in 1..Len(gathered)}
    IN  <<LPAREN>> \o JoinWith(SortedSeq(items), <<PIPE>>) \o <<RPAREN>>

(***************************************************************************)
(* glob.rs: GlobIterator, one action per handler.  Each action is one call *)
(* of Iterator::next (glob.rs:572-588), which dispatches on the state.     *)
(***************************************************************************)
Running == error.kind = "None"
CanRead == Len(pattern) < input.max_len

\* a handler that returned Ok(Some(fragment)) or Ok(None)
Emit(handler, consumed, new_state, frags, closed) ==
    /\ pattern' = pattern \o consumed
    /\ state' = new_state
    /\ out' = out \o frags
    /\ error' = NoError
    /\ last' = [handler |-> handler, consumed |-> consumed, emitted |-> frags,
                closed |-> closed]
    /\ UNCHANGED <<input, mainVars>>

\* a handler that returned Err(..): mem::take has left State::Start behind
Fail(handler, consumed, err) ==
    /\ pattern' = pattern \o consumed
    /\ state' = Plain("Start")
    /\ out' = out
    /\ error' = err
    /\ last' = [handler |-> handler, consumed |-> consumed, emitted |-> <<>>,
                closed |-> <<>>]
    /\ UNCHANGED <<input, mainVars>>

handle_start ==
    /\ Running
    /\ state.name = "Start"
    /\ Emit("handle_start", <<>>, Plain("Literal"), <<<<CARET>>>>, <<>>)

\* the fragment handle_literal emits for the wildcard `*`
StarFragment == <<DOT, STAR>>

\* a handle_literal that hands out the wildcard `*` as two fragments
literal_two_fragments(chr) ==
    IF chr = STAR THEN <<Plain("Literal"), <<<<DOT>>, <<STAR>>>>>>
    ELSE <<Plain("Literal"), <<<<chr>>>>>>

\* the (new state, fragments) pair handle_literal computes for Some(chr)
literal_step(chr) ==
    CASE chr = BACKSLASH -> <<Plain("Escape"), <<>>>>
      [] chr = LBRACKET -> <<Plain("ClassStart"), <<>>>>
      [] chr = LBRACE -> <<InAlt("Alternate", <<>>, <<>>), <<>>>>
      [] chr = QMARK -> <<Plain("Literal"), <<<<LBRACKET, CARET, SLASH, RBRACKET>>>>>>
      [] chr = STAR -> <<Plain("Literal"), <<StarFragment>>>>
      [] chr \in {RBRACKET, RBRACE, DOT} -> <<Plain("Literal"), <<<<BACKSLASH, chr>>>>>>
      [] OTHER -> <<Plain("Literal"), <<<<chr>>>>>>

handle_literal ==
    /\ Running
    /\ state.name = "Literal"
    /\ \/ Emit("handle_literal", <<>>, Plain("End"), <<<<DOLLAR>>>>, <<>>)
       \/ /\ CanRead
          /\ \E chr \in input.chars :
                Emit("handle_literal", <<chr>>, literal_step(chr)[1],
                     literal_step(chr)[2], <<>>)

\* a parser that takes a trailing backslash for the end of the pattern
escape_or_end ==
    /\ Running
    /\ state.name = "Escape"
    /\ \/ Emit("handle_escape", <<>>, Plain("End"), <<<<DOLLAR>>>>, <<>>)
       \/ /\ CanRead
          /\ \E chr \in input.chars :
                Emit("handle_escape", <<chr>>, Plain("Literal"),
                     <<escape_special(chr)>>, <<>>)

handle_escape ==
    /\ Running
    /\ state.name = "Escape"
    /\ \/ Fail("handle_escape", <<>>, Err("BareEscape"))
       \/ /\ CanRead
          /\ \E chr \in input.chars :
                Emit("handle_escape", <<chr>>, Plain("Literal"),
                     <<escape_special(chr)>>, <<>>)

\* a handle_class_start that takes the first member for a completed range
start_in_range_dash(chr) == InClass("ClassRangeDash", NewAcc(FALSE, <<Char(chr)>>))

\* the state handle_class_start moves to for Some(chr)
class_start_state(chr) ==
    CASE chr = BANG -> InClass("Class", NewAcc(TRUE, <<>>))
      [] chr = DASH -> InClass("Class", NewAcc(FALSE, <<Char(DASH)>>))
      [] chr = RBRACKET -> InClass("Class", NewAcc(FALSE, <<Char(RBRACKET)>>))
      [] chr = BACKSLASH -> InClass("ClassEscape", NewAcc(FALSE, <<>>))
      [] OTHER -> InClass("Class", NewAcc(FALSE, <<Char(chr)>>))

handle_class_start ==
    /\ Running
    /\ state.name = "ClassStart"
    /\ \/ Fail("handle_class_start", <<>>, Err("UnclosedClass"))
       \/ /\ CanRead
          /\ \E chr \in input.chars :
                Emit("handle_class_start", <<chr>>, class_start_state(chr), <<>>, <<>>)

Pop(items) == SubSeq(items, 1, Len(items) - 1)

handle_class ==
    /\ Running
    /\ state.name = "Class"
    /\ LET acc == state.acc
       IN  \/ Fail("handle_class", <<>>, Err("UnclosedClass"))
           \/ /\ CanRead
              /\ \E chr \in input.chars :
                    IF chr = RBRACKET THEN
                        IF acc.items = <<>>
                        THEN Emit("handle_class", <<chr>>,
                                  InClass("Class", NewAcc(acc.negated, <<Char(RBRACKET)>>)),
                                  <<>>, <<>>)
                        ELSE Emit("handle_class", <<chr>>, Plain("Literal"),
                                  <<close_class(acc)>>, <<acc>>)
                    ELSE IF chr = DASH THEN
                        IF acc.items = <<>>
                        THEN Emit("handle_class", <<chr>>,
                                  InClass("Class", NewAcc(acc.negated, <<Char(DASH)>>)),
                                  <<>>, <<>>)
                        ELSE IF acc.items[Len(acc.items)].t = "Range"
                        THEN Emit("handle_class", <<chr>>, InClass("ClassRangeDash", acc),
                                  <<>>, <<>>)
                        ELSE Emit("handle_class", <<chr>>,
                                  St("ClassRange", NewAcc(acc.negated, Pop(acc.items)),
                                     acc.items[Len(acc.items)].a, <<>>, <<>>),
                                  <<>>, <<>>)
                    ELSE IF chr = BACKSLASH THEN
                        Emit("handle_class", <<chr>>, InClass("ClassEscape", acc), <<>>, <<>>)
                    ELSE
                        Emit("handle_class", <<chr>>,
                             InClass("Class", NewAcc(acc.negated, Append(acc.items, Char(chr)))),
                             <<>>, <<>>)

handle_class_escape ==
    /\ Running
    /\ state.name = "ClassEscape"
    /\ \/ Fail("handle_class_escape", <<>>, Err("UnclosedClass"))
       \/ /\ CanRead
          /\ \E chr \in input.chars :
                Emit("handle_class_escape", <<chr>>,
                     InClass("Class",
                             NewAcc(state.acc.negated,
                                    Append(state.acc.items, Char(map_letter_escape(chr))))),
                     <<>>, <<>>)

handle_class_range ==
    /\ Running
    /\ state.name = "ClassRange"
    /\ LET acc == state.acc
           start == state.start
       IN  \/ Fail("handle_class_range", <<>>, Err("UnclosedClass"))
           \/ /\ CanRead
              /\ \E chr \in input.chars :
                    IF chr = BACKSLASH THEN
                        Fail("handle_class_range", <<chr>>, Err("NotImplemented"))
                    ELSE IF chr = RBRACKET THEN
                        LET closing == NewAcc(acc.negated,
                                              acc.items \o <<Char(start), Char(DASH)>>)
                        IN  Emit("handle_class_range", <<chr>>, Plain("Literal"),
                                 <<close_class(closing)>>, <<closing>>)
                    ELSE IF start > chr THEN
                        Fail("handle_class_range", <<chr>>, Err2("ReversedRange", start, chr))
                    ELSE IF start = chr THEN
                        Emit("handle_class_range", <<chr>>,
                             InClass("Class", NewAcc(acc.negated, Append(acc.items, Char(start)))),
                             <<>>, <<>>)
                    ELSE
                        Emit("handle_class_range", <<chr>>,
                             InClass("Class",
                                     NewAcc(acc.negated, Append(acc.items, Range(start, chr)))),
                             <<>>, <<>>)

handle_class_range_dash ==
    /\ Running
    /\ state.name = "ClassRangeDash"
    /\ LET acc == state.acc
       IN  \/ Fail("handle_class_range_dash", <<>>, Err("UnclosedClass"))
           \/ /\ CanRead
              /\ \E chr \in input.chars :
                    IF chr = RBRACKET THEN
                        LET closing == NewAcc(acc.negated, Append(acc.items, Char(DASH)))
                        IN  Emit("handle_class_range_dash", <<chr>>, Plain("Literal"),
                                 <<close_class(closing)>>, <<closing>>)
                    ELSE IF acc.items # <<>> /\ acc.items[Len(acc.items)].t = "Range" THEN
                        Fail("handle_class_range_dash", <<chr>>,
                             Err2("RangeAfterRange", acc.items[Len(acc.items)].a,
                                  acc.items[Len(acc.items)].b))
                    ELSE
                        Fail("handle_class_range_dash", <<chr>>, Err("unreachable"))

handle_alternate ==
    /\ Running
    /\ state.name = "Alternate"
    /\ LET current == state.current
           gathered == state.gathered
       IN  \/ Fail("handle_alternate", <<>>, Err("UnclosedAlternation"))
           \/ /\ CanRead
              /\ \E chr \in input.chars :
                    IF chr = COMMA THEN
                        Emit("handle_alternate", <<chr>>,
                             InAlt("Alternate", <<>>, Append(gathered, current)), <<>>, <<>>)
                    ELSE IF chr = RBRACE THEN
                        IF current = <<>> /\ gathered = <<>>
                        THEN Emit("handle_alternate", <<chr>>, Plain("Literal"),
                                  <<<<BACKSLASH, LBRACE, BACKSLASH, RBRACE>>>>, <<>>)
                        ELSE Emit("handle_alternate", <<chr>>, Plain("Literal"),
                                  <<close_alternate(Append(gathered, current))>>, <<>>)
                    ELSE IF chr = BACKSLASH THEN
                        Emit("handle_alternate", <<chr>>,
                             InAlt("AlternateEscape", current, gathered), <<>>, <<>>)
                    ELSE IF chr = LBRACKET THEN
                        Fail("handle_alternate", <<chr>>, Err("NotImplemented"))
                    ELSE
                        Emit("handle_alternate", <<chr>>,
                             InAlt("Alternate", Append(current, chr), gathered), <<>>, <<>>)

handle_alternate_escape ==
    /\ Running
    /\ state.name = "AlternateEscape"
    /\ \/ Fail("handle_alternate_escape", <<>>, Err("UnclosedAlternation"))
       \/ /\ CanRead
          /\ \E chr \in input.chars :
                Emit("handle_alternate_escape", <<chr>>,
                     InAlt("Alternate", Append(state.current, map_letter_escape(chr)),
                           state.gathered),
                     <<>>, <<>>)

\* glob_to_regex_string: the fragments joined (only when the iterator ended Ok)
glob_to_regex_string == Concat(out)

(***************************************************************************)
(* glob.rs: the same iterator as a function of the pattern text, for the   *)
(* callers that compile a configured pattern (main.rs:193-232).            *)
(***************************************************************************)
Yield(new_state, frags) == [state |-> new_state, frags |-> frags, error |-> NoError]
Raise(err) == [state |-> Plain("Start"), frags |-> <<>>, error |-> err]

\* one call of a handler in state st on self.pattern.next() = read, which is
\* <<>> for None and <<chr>> for Some(chr)
handler_result(st, read) ==
    LET chr == read[1]
        acc == st.acc
        current == st.current
        gathered == st.gathered
        start == st.start
    IN  CASE st.name = "Literal" ->
                IF read = <<>> THEN Yield(Plain("End"), <<<<DOLLAR>>>>)
                ELSE Yield(literal_step(chr)[1], literal_step(chr)[2])
          [] st.name = "Escape" ->
                IF read = <<>> THEN Raise(Err("BareEscape"))
                ELSE Yield(Plain("Literal"), <<escape_special(chr)>>)
          [] st.name = "ClassStart" ->
                IF read = <<>> THEN Raise(Err("UnclosedClass"))
                ELSE Yield(class_start_state(chr), <<>>)
          [] st.name = "Class" ->
                IF read = <<>> THEN Raise(Err("UnclosedClass"))
                ELSE IF chr = RBRACKET THEN
                    IF acc.items = <<>>
                    THEN Yield(InClass("Class", NewAcc(acc.negated, <<Char(RBRACKET)>>)), <<>>)
                    ELSE Yield(Plain("Literal"), <<close_class(acc)>>)
                ELSE IF chr = DASH THEN
                    IF acc.items = <<>>
                    THEN Yield(InClass("Class", NewAcc(acc.negated, <<Char(DASH)>>)), <<>>)
                    ELSE IF acc.items[Len(acc.items)].t = "Range"
                    THEN Yield(InClass("ClassRangeDash", acc), <<>>)
                    ELSE Yield(St("ClassRange", NewAcc(acc.negated, Pop(acc.items)),
                                  acc.items[Len(acc.items)].a, <<>>, <<>>), <<>>)
                ELSE IF chr = BACKSLASH THEN Yield(InClass("ClassEscape", acc), <<>>)
                ELSE Yield(InClass("Class", NewAcc(acc.negated, Append(acc.items, Char(chr)))),
                           <<>>)
          [] st.name = "ClassEscape" ->
                IF read = <<>> THEN Raise(Err("UnclosedClass"))
                ELSE Yield(InClass("Class",
                                   NewAcc(acc.negated,
                                          Append(acc.items, Char(map_letter_escape(chr))))),
                           <<>>)
          [] st.name = "ClassRange" ->
                IF read = <<>> THEN Raise(Err("UnclosedClass"))
                ELSE IF chr = BACKSLASH THEN Raise(Err("NotImplemented"))
                ELSE IF chr = RBRACKET THEN
                    Yield(Plain("Literal"),
                          <<close_class(NewAcc(acc.negated,
                                               acc.items \o <<Char(start), Char(DASH)>>))>>)
                ELSE IF start > chr THEN Raise(Err2("ReversedRange", start, chr))
                ELSE IF start = chr THEN
                    Yield(InClass("Class", NewAcc(acc.negated, Append(acc.items, Char(start)))),
                          <<>>)
                ELSE Yield(InClass("Class",
                                   NewAcc(acc.negated, Append(acc.items, Range(start, chr)))),
                           <<>>)
          [] st.name = "ClassRangeDash" ->
                IF read = <<>> THEN Raise(Err("UnclosedClass"))
                ELSE IF chr = RBRACKET THEN
                    Yield(Plain("Literal"),
                          <<close_class(NewAcc(acc.negated, Append(acc.items, Char(DASH))))>>)
                ELSE IF acc.items # <<>> /\ acc.items[Len(acc.items)].t = "Range" THEN
                    Raise(Err2("RangeAfterRange", acc.items[Len(acc.items)].a,
                               acc.items[Len(acc.items)].b))
                ELSE Raise(Err("unreachable"))
          [] st.name = "Alternate" ->
                IF read = <<>> THEN Raise(Err("UnclosedAlternation"))
                ELSE IF chr = COMMA THEN
                    Yield(InAlt("Alternate", <<>>, Append(gathered, current)), <<>>)
                ELSE IF chr = RBRACE THEN
                    IF current = <<>> /\ gathered = <<>>
                    THEN Yield(Plain("Literal"), <<<<BACKSLASH, LBRACE, BACKSLASH, RBRACE>>>>)
                    ELSE Yield(Plain("Literal"), <<close_alternate(Append(gathered, current))>>)
                ELSE IF chr = BACKSLASH THEN
                    Yield(InAlt("AlternateEscape", current, gathered), <<>>)
                ELSE IF chr = LBRACKET THEN Raise(Err("NotImplemented"))
                ELSE Yield(InAlt("Alternate", Append(current, chr), gathered), <<>>)
          [] st.name = "AlternateEscape" ->
                IF read = <<>> THEN Raise(Err("UnclosedAlternation"))
                ELSE Yield(InAlt("Alternate", Append(current, map_letter_escape(chr)), gathered),
                           <<>>)

\* Iterator::next until it returns None or an Err, over the characters of rest
RECURSIVE collect(_, _, _)
collect(st, rest, frags) ==
    IF st.name = "End" THEN [error |-> NoError, src |-> Concat(frags)]
    ELSE IF st.name = "Start" THEN collect(Plain("Literal"), rest, Append(frags, <<CARET>>))
    ELSE LET r == handler_result(st, IF rest = <<>> THEN <<>> ELSE <<Head(rest)>>)
         IN  IF r.error # NoError THEN [error |-> r.error, src |-> <<>>]
             ELSE collect(r.state, IF rest = <<>> THEN <<>> ELSE Tail(rest),
                          frags \o r.frags)

\* glob_to_regex_string(text) before the unwrap(): the joined fragments or
\* the first error
glob_to_regex(text) == collect(Plain("Start"), text, <<>>)

(***************************************************************************)
(* What the regex engine does with the emitted text (Regex::new and        *)
(* is_match, main.rs:147 and 199-203): literals, `\c`, `.`, bracket        *)
(* expressions, groups, `|`, the quantifiers `*`, `+`, `?` and the         *)
(* anchors.  A regex that Regex::new rejects matches nothing.              *)
(***************************************************************************)
RECURSIVE ScanClose(_, _)
ScanClose(re, k) ==
    IF k > Len(re) THEN 0
    ELSE IF re[k] = BACKSLASH THEN ScanClose(re, k + 2)
    ELSE IF re[k] = RBRACKET THEN k
    ELSE ScanClose(re, k + 1)

ClassNegated(re, i) == i + 1 <= Len(re) /\ re[i + 1] = CARET

ClassBodyStart(re, i) == IF ClassNegated(re, i) THEN i + 2 ELSE i + 1

\* index of the `]` closing the bracket expression opened at re[i], 0 if none;
\* a `]` right after `[` or `[^` is a member
ClassClose(re, i) ==
    LET b == ClassBodyStart(re, i)
    IN  IF b <= Len(re) /\ re[b] = RBRACKET THEN ScanClose(re, b + 1)
        ELSE ScanClose(re, b)

\* the characters listed by re[k .. e-1], the body of a bracket expression
RECURSIVE ClassMembers(_, _, _)
ClassMembers(re, k, e) ==
    IF k >= e THEN {}
    ELSE LET esc == re[k] = BACKSLASH /\ k + 1 < e
             lo == IF esc THEN re[k + 1] ELSE re[k]
             n == IF esc THEN k + 2 ELSE k + 1
             is_range == n + 1 < e /\ re[n] = DASH
             hesc == re[n + 1] = BACKSLASH /\ n + 2 < e
             hi == IF hesc THEN re[n + 2] ELSE re[n + 1]
             m == IF hesc THEN n + 3 ELSE n + 2
         IN  IF is_range THEN (lo..hi) \cup ClassMembers(re, m, e)
             ELSE {lo} \cup ClassMembers(re, n, e)

\* the characters a text can hold
Alphabet == TextChars \cup GlobChars \cup ClassChars \cup LiteralChars

\* the characters the bracket expression opened at re[i] accepts
ClassAccepts(re, i) ==
    LET e == ClassClose(re, i)
        members == ClassMembers(re, ClassBodyStart(re, i), e)
    IN  IF e = 0 THEN {}
        ELSE IF ClassNegated(re, i) THEN Alphabet \ members
        ELSE Alphabet \cap members

\* index of the `)` closing the group whose body starts at re[k], d groups
\* deeper; 0 if there is none
RECURSIVE GroupClose(_, _, _)
GroupClose(re, k, d) ==
    IF k > Len(re) THEN 0
    ELSE IF re[k] = BACKSLASH THEN GroupClose(re, k + 2, d)
    ELSE IF re[k] = LBRACKET
    THEN (IF ClassClose(re, k) = 0 THEN 0 ELSE GroupClose(re, ClassClose(re, k) + 1, d))
    ELSE IF re[k] = LPAREN THEN GroupClose(re, k + 1, d + 1)
    ELSE IF re[k] = RPAREN THEN (IF d = 0 THEN k ELSE GroupClose(re, k + 1, d - 1))
    ELSE GroupClose(re, k + 1, d)

\* the characters the one-character atom at re[i] accepts
AtomSet(re, i) ==
    IF re[i] = BACKSLASH THEN (IF i + 1 <= Len(re) THEN {re[i + 1]} ELSE {})
    ELSE IF re[i] = LBRACKET THEN ClassAccepts(re, i)
    ELSE IF re[i] = DOT THEN Alphabet
    ELSE {re[i]}

\* the index after the atom at re[i]
AtomEnd(re, i) ==
    IF re[i] = BACKSLASH THEN i + 2
    ELSE IF re[i] = LBRACKET
    THEN (IF ClassClose(re, i) = 0 THEN Len(re) + 1 ELSE ClassClose(re, i) + 1)
    ELSE IF re[i] = LPAREN
    THEN (IF GroupClose(re, i + 1, 0) = 0 THEN Len(re) + 1 ELSE GroupClose(re, i + 1, 0) + 1)
    ELSE i + 1

Quantifiers == {STAR, PLUS, QMARK}

\* the index after the quantifier at re[k]: a `+` or `?` after a quantifier
\* only changes how greedily it matches
QuantEnd(re, k) ==
    IF k + 1 <= Len(re) /\ re[k + 1] \in {PLUS, QMARK} THEN k + 2 ELSE k + 1

\* index of the first `|` of re[k .. hi] outside groups and classes, 0 if none
RECURSIVE NextBar(_, _, _)
NextBar(re, k, hi) ==
    IF k > hi THEN 0
    ELSE IF re[k] = PIPE THEN k
    ELSE NextBar(re, AtomEnd(re, k), hi)

\* Regex::new accepts re[lo .. hi]: classes and groups are closed, no `)` is
\* unopened, no backslash is last, no quantifier lacks something to repeat
\* (`fresh`: nothing precedes in this branch)
RECURSIVE ValidSeq(_, _, _, _)
ValidSeq(re, lo, hi, fresh) ==
    IF lo > hi THEN TRUE
    ELSE IF re[lo] \in Quantifiers THEN ~fresh /\ ValidSeq(re, QuantEnd(re, lo), hi, FALSE)
    ELSE IF re[lo] = PIPE THEN ValidSeq(re, lo + 1, hi, TRUE)
    ELSE IF re[lo] = RPAREN THEN FALSE
    ELSE IF re[lo] = BACKSLASH THEN lo + 1 <= hi /\ ValidSeq(re, lo + 2, hi, FALSE)
    ELSE IF re[lo] = LBRACKET
    THEN /\ ClassClose(re, lo) # 0
         /\ ClassClose(re, lo) <= hi
         /\ ValidSeq(re, ClassClose(re, lo) + 1, hi, FALSE)
    ELSE IF re[lo] = LPAREN
    THEN /\ GroupClose(re, lo + 1, 0) # 0
         /\ GroupClose(re, lo + 1, 0) <= hi
         /\ ValidSeq(re, lo + 1, GroupClose(re, lo + 1, 0) - 1, TRUE)
         /\ ValidSeq(re, GroupClose(re, lo + 1, 0) + 1, hi, FALSE)
    ELSE ValidSeq(re, lo + 1, hi, FALSE)

regex_valid(re) == ValidSeq(re, 1, Len(re), TRUE)

\* Matching by positions: from the positions S of text, the positions reached
\* after matching the alternation / the sequence re[lo .. hi], the atom at
\* re[i] once, the atom at re[i] any number of times.
RECURSIVE AltEnds(_, _, _, _, _)
RECURSIVE SeqEnds(_, _, _, _, _)
RECURSIVE AtomOnce(_, _, _, _)
RECURSIVE AtomStar(_, _, _, _)

AltEnds(re, lo, hi, text, S) ==
    LET b == NextBar(re, lo, hi)
    IN  IF b = 0 THEN SeqEnds(re, lo, hi, text, S)
        ELSE SeqEnds(re, lo, b - 1, text, S) \cup AltEnds(re, b + 1, hi, text, S)

AtomOnce(re, i, text, S) ==
    IF re[i] = CARET THEN S \cap {1}
    ELSE IF re[i] = DOLLAR THEN S \cap {Len(text) + 1}
    ELSE IF re[i] = LPAREN
    THEN AltEnds(re, i + 1, GroupClose(re, i + 1, 0) - 1, text, S)
    ELSE {j + 1 : j \in {x \in S : x <= Len(text) /\ text[x] \in AtomSet(re, i)}}

AtomStar(re, i, text, S) ==
    LET n == S \cup AtomOnce(re, i, text, S)
    IN  IF n = S THEN S ELSE AtomStar(re, i, text, n)

SeqEnds(re, lo, hi, text, S) ==
    IF lo > hi \/ S = {} THEN S
    ELSE LET k == AtomEnd(re, lo)
             quant == IF k <= hi THEN re[k] ELSE 0
         IN  IF quant = STAR
             THEN SeqEnds(re, QuantEnd(re, k), hi, text, AtomStar(re, lo, text, S))
             ELSE IF quant = PLUS
             THEN SeqEnds(re, QuantEnd(re, k), hi, text,
                          AtomStar(re, lo, text, AtomOnce(re, lo, text, S)))
             ELSE IF quant = QMARK
             THEN SeqEnds(re, QuantEnd(re, k), hi, text, S \cup AtomOnce(re, lo, text, S))
             ELSE SeqEnds(re, k, hi, text, AtomOnce(re, lo, text, S))

\* re[i ..] matches exactly text[j ..]
MatchAt(re, i, text, j) == (Len(text) + 1) \in AltEnds(re, i, Len(re), text, {j})

\* the regex text `re` (a fragment, or a whole anchored regex) is accepted by
\* Regex::new and matches all of `text`
is_match(re, text) == regex_valid(re) /\ MatchAt(re, 1, text, 1)

(***************************************************************************)
(* GlobSpec: the parser run on every pattern of every input                *)
(***************************************************************************)
Idle ==
    /\ app_options = [enable_deletion |-> FALSE, enable_hash_matching |-> FALSE,
                      enable_renaming |-> FALSE, enable_prune_empty_dir |-> FALSE,
                      prune |-> FALSE, config_file |-> "", skip_parent_tmp |-> TRUE]
    /\ hash_order = <<>>
    /\ fs = <<>>
    /\ fs0 = <<>>
    /\ walk = <<>>
    /\ pos = 0
    /\ operation_list = <<>>
    /\ executed = <<>>
    /\ pc = "idle"

GlobStart ==
    /\ pattern = <<>>
    /\ state = Plain("Start")
    /\ out = <<>>
    /\ error = NoError
    /\ last = [handler |-> "none", consumed |-> <<>>, emitted |-> <<>>, closed |-> <<>>]

GlobInit == GlobStart /\ input \in Inputs /\ Idle

GlobNext ==
    \/ handle_start
    \/ handle_literal
    \/ handle_escape
    \/ handle_class_start
    \/ handle_class
    \/ handle_class_escape
    \/ handle_class_range
    \/ handle_class_range_dash
    \/ handle_alternate
    \/ handle_alternate_escape

GlobSpec == GlobInit /\ [][GlobNext]_vars

(***************************************************************************)
(* main.rs: paths, the filesystem, the configuration                       *)
(*                                                                         *)
(* A name is a sequence of code points, a path the sequence of names from  *)
(* the target directory down.  The filesystem maps every existing path to  *)
(* an entry; `id` identifies the entry's content (the path it was created  *)
(* under), `hash` is the MD5 digest of a file's content.                   *)
(***************************************************************************)
\* most entries below the target directory
MaxEntries == 3
\* most components of a path, the target directory included
MaxDepth == 3

\* the names a, b, x, xa and r, as their characters' codes
NameA == <<LOWER_A>>
NameB == <<98>>
NameX == <<120>>
NameXA == <<120, LOWER_A>>
NameR == <<114>>

\* the base names entries below the target directory are drawn from
Names == {NameA, NameB, NameX, NameXA}
\* the digests file contents are drawn from
Hashes == {"h1", "h2"}

\* the target directory
Root == <<NameR>>

Last(s) == s[Len(s)]
Parent(path) == SubSeq(path, 1, Len(path) - 1)
IsPrefix(p, q) == Len(p) <= Len(q) /\ SubSeq(q, 1, Len(p)) = p
IsAncestor(p, q) == Len(p) < Len(q) /\ IsPrefix(p, q)

MkDir(path) == [kind |-> "dir", hash |-> "", id |-> path]
MkFile(path, h) == [kind |-> "file", hash |-> h, id |-> path]
EntryKinds(path) == {MkDir(path)} \cup {MkFile(path, h) : h \in Hashes}

\* a symbolic link; its target need not exist
MkLink(path, target) == [kind |-> "symlink", hash |-> "", id |-> path, target |-> target]

Children(f, p) == {q \in DOMAIN f : Len(q) = Len(p) + 1 /\ IsPrefix(p, q)}

\* most symbolic links followed in resolving one path
MaxLinks == 2

\* the entry a path denotes when symbolic links are followed (stat): its
\* path, or <<>> if the path, or the target of a link on the way, is missing
RECURSIVE resolve_from(_, _, _)
resolve_from(f, p, n) ==
    IF p \notin DOMAIN f THEN <<>>
    ELSE IF f[p].kind # "symlink" THEN p
    ELSE IF n = 0 THEN <<>>
    ELSE resolve_from(f, f[p].target, n - 1)

resolve(f, p) == resolve_from(f, p, MaxLinks)

\* Path::exists, Path::is_dir, Path::is_file: all follow symbolic links
path_exists(f, p) == resolve(f, p) # <<>>
is_dir(f, p) == path_exists(f, p) /\ f[resolve(f, p)].kind = "dir"
is_file(f, p) == path_exists(f, p) /\ f[resolve(f, p)].kind = "file"

\* every filesystem with one more entry than f
Grow(f) ==
    LET slots == {x \in {d \in DOMAIN f : f[d].kind = "dir" /\ Len(d) < MaxDepth} \X Names :
                      Append(x[1], x[2]) \notin DOMAIN f}
    IN  UNION {{f @@ (Append(x[1], x[2]) :> e) : e \in EntryKinds(Append(x[1], x[2]))} :
                  x \in slots}

RECURSIVE TreesUpTo(_)
TreesUpTo(n) ==
    IF n = 0 THEN {(Root :> MkDir(Root))}
    ELSE LET smaller == TreesUpTo(n - 1)
         IN  smaller \cup UNION {Grow(f) : f \in smaller}

\* Regex values: `src` is what to_string() returns, `lang` the names is_match
\* accepts, `chars` the characters a cleanup regex matches (replace_all
\* removes every match).
IsMatch(re, name) == name \in re.lang

\* PatternsConfig.remove, compiled (main.rs:133-134): the globs `b` and `[b]`
patterns_to_remove ==
    << [src |-> "^b$", lang |-> {NameB}], [src |-> "^[b]$", lang |-> {NameB}] >>

\* PatternsConfig.remove_hash, compiled (main.rs:137): the globs `xa` and `zz`,
\* each with its candidate digests
remove_hash ==
    { [re |-> [src |-> "^xa$", lang |-> {NameXA}], hash_list |-> {"h1"}],
      [re |-> [src |-> "^zz$", lang |-> {}], hash_list |-> {"h2"}] }

\* PatternsConfig.cleanup, compiled (main.rs:135-136): the regex `x`
patterns_to_rename == << [src |-> "x", chars |-> {120}] >>

\* the orders a HashMap of these keys can be iterated in (main.rs:221-232)
create_patterns_with_hash ==
    {<<a, b>> : a \in remove_hash, b \in remove_hash} \ {<<a, a>> : a \in remove_hash}

(***************************************************************************)
(* main.rs: PatternMatcher::from_config_file (131-143) and the list        *)
(* constructors (193-232).  A pattern is the sequence of its characters; a *)
(* constructed Regex is its source text, `ok` says whether Regex::new      *)
(* returned Ok (the unwrap() panics otherwise).                            *)
(***************************************************************************)
Whitespace == {9, 10, 11, 12, 13, 32}

RECURSIVE trim_start(_)
trim_start(s) ==
    IF s # <<>> /\ Head(s) \in Whitespace THEN trim_start(Tail(s)) ELSE s

RECURSIVE trim_end(_)
trim_end(s) ==
    IF s # <<>> /\ s[Len(s)] \in Whitespace THEN trim_end(SubSeq(s, 1, Len(s) - 1)) ELSE s

trim(s) == trim_end(trim_start(s))

\* Regex::new(src)
regex_new(src) == [ok |-> regex_valid(src), src |-> src]

\* Regex::new(glob_to_regex_string(text)); glob_to_regex_string itself
\* panics on a glob error
glob_regex(text) ==
    LET g == glob_to_regex(text)
    IN  IF g.error # NoError THEN [ok |-> FALSE, src |-> <<>>] ELSE regex_new(g.src)

parse_mixed_regex(entry) ==
    LET p == trim(entry)
    IN  IF p # <<>> /\ Head(p) = SLASH THEN regex_new(Tail(p)) ELSE glob_regex(p)

create_mixed_regex_list(patterns) ==
    [i \in 1..Len(patterns) |-> parse_mixed_regex(patterns[i])]

create_regex_list(patterns) ==
    [i \in 1..Len(patterns) |-> regex_new(trim(patterns[i]))]

\* the Regex create_patterns_with_hash builds for one key of remove_hash
hash_key_regex(key) == glob_regex(key)

\* a construction that drops the patterns that do not compile
skips_bad(list) == FALSE

\* whether an unwrap() of the list's construction panicked
unwrap_panics(list) == \E i \in 1..Len(list) : ~list[i].ok

\* the configuration files main may be given
ConfigFiles ==
    {"patterns.yml", "bad_glob.yml", "bad_regex.yml", "bad_result.yml",
     "bad_cleanup.yml", "bad_hash.yml"}

\* PatternsConfig::from_config_file: the content of each file.  patterns.yml
\* is the configuration patterns_to_remove, remove_hash and
\* patterns_to_rename below are compiled from; each other file has one
\* malformed entry: `[b`, `/(`, `)`, the cleanup `(`, the hash key `{a`.
PatternsConfig(config_file) ==
    LET good == [remove |-> << <<98>>, <<LBRACKET, 98, RBRACKET>> >>,
                 remove_hash |-> << <<120, LOWER_A>>, <<122, 122>> >>,
                 cleanup |-> << <<120>> >>]
    IN  CASE config_file = "bad_glob.yml" ->
                [good EXCEPT !.remove = << <<98>>, <<LBRACKET, 98>> >>]
          [] config_file = "bad_regex.yml" ->
                [good EXCEPT !.remove = << <<SLASH, LPAREN>>, <<98>> >>]
          [] config_file = "bad_result.yml" ->
                [good EXCEPT !.remove = << <<RPAREN>>, <<98>> >>]
          [] config_file = "bad_cleanup.yml" ->
                [good EXCEPT !.cleanup = << <<120>>, <<LPAREN>> >>]
          [] config_file = "bad_hash.yml" ->
                [good EXCEPT !.remove_hash = << <<120, LOWER_A>>, <<LBRACE, LOWER_A>> >>]
          [] OTHER -> good

\* whether PatternMatcher::from_config_file panics on this configuration
construction_panics(config) ==
    \/ unwrap_panics(create_mixed_regex_list(config.remove))
    \/ unwrap_panics(create_regex_list(config.cleanup))
    \/ unwrap_panics([i \in 1..Len(config.remove_hash) |-> hash_key_regex(config.remove_hash[i])])

(***************************************************************************)
(* main.rs: PatternMatcher                                                 *)
(***************************************************************************)
NoMatch == [matched |-> FALSE, pattern |-> "", panicked |-> FALSE]
Matched(p) == [matched |-> TRUE, pattern |-> p, panicked |-> FALSE]
Panicked == [matched |-> FALSE, pattern |-> "", panicked |-> TRUE]

RECURSIVE remove_scan(_, _)
remove_scan(test_file, i) ==
    IF i > Len(patterns_to_remove) THEN NoMatch
    ELSE IF IsMatch(patterns_to_remove[i], test_file)
    THEN Matched(patterns_to_remove[i].src)
    ELSE remove_scan(test_file, i + 1)

match_remove_pattern(test_file) == remove_scan(test_file, 1)

\* a digest test that looks in every pattern's list
any_hash_listed(hash_list, hash) == hash \in UNION {p.hash_list : p \in remove_hash}

\* hash_list.contains(&hash)
hash_listed(hash_list, hash) == hash \in hash_list

\* the loop of match_remove_hash from the i-th pattern on; File::open follows
\* symbolic links; opening a missing target or reading a directory fails and
\* the unwrap() panics
RECURSIVE hash_scan(_, _)
hash_scan(test_file, i) ==
    IF i > Len(hash_order) THEN NoMatch
    ELSE IF IsMatch(hash_order[i].re, Last(test_file))
    THEN IF ~is_file(fs, test_file) THEN Panicked
         ELSE IF hash_listed(hash_order[i].hash_list, fs[resolve(fs, test_file)].hash)
         THEN Matched(hash_order[i].re.src \o ":" \o fs[resolve(fs, test_file)].hash)
         ELSE hash_scan(test_file, i + 1)
    ELSE hash_scan(test_file, i + 1)

match_remove_hash(test_file) == hash_scan(test_file, 1)

replace_all(re, name) == SelectSeq(name, LAMBDA c : c \notin re.chars)

RECURSIVE clean_from(_, _)
clean_from(new_filename, i) ==
    IF i > Len(patterns_to_rename) THEN new_filename
    ELSE clean_from(replace_all(patterns_to_rename[i], new_filename), i + 1)

clean_filename(filename) == clean_from(filename, 1)

(***************************************************************************)
(* pmatcher.rs: the other match_remove_hash (not called by main).  `large` *)
(* says whether the file is over 100 MiB; a read error is no match.        *)
(***************************************************************************)
RECURSIVE pmatcher_hash_scan(_, _, _)
pmatcher_hash_scan(test_file, large, i) ==
    IF i > Len(hash_order) THEN NoMatch
    ELSE IF IsMatch(hash_order[i].re, Last(test_file))
    THEN IF large THEN NoMatch
         ELSE IF is_file(fs, test_file)
                 /\ hash_listed(hash_order[i].hash_list, fs[resolve(fs, test_file)].hash)
         THEN Matched(hash_order[i].re.src \o ":" \o fs[resolve(fs, test_file)].hash)
         ELSE pmatcher_hash_scan(test_file, large, i + 1)
    ELSE pmatcher_hash_scan(test_file, large, i + 1)

pmatcher_match_remove_hash(test_file, large) == pmatcher_hash_scan(test_file, large, 1)

(***************************************************************************)
(* main.rs: the walk (393-405)                                             *)
(***************************************************************************)
\* sort_by: directories first, then by file name
walk_before(f, a, b) ==
    IF (f[a].kind = "dir") # (f[b].kind = "dir") THEN f[a].kind = "dir"
    ELSE LexLess(Last(a), Last(b))

RECURSIVE sort_entries(_, _)
sort_entries(f, S) ==
    IF S = {} THEN <<>>
    ELSE LET m == CHOOSE x \in S : \A y \in S : x = y \/ walk_before(f, x, y)
         IN  <<m>> \o sort_entries(f, S \ {m})

\* the base name `.tmp`
NameTmp == <<46, 116, 109, 112>>

\* neither the entry nor the directory it lies in is named `.tmp`
is_not_hidden(path) ==
    /\ Last(path) # NameTmp
    /\ Len(path) >= 2 => Last(Parent(path)) # NameTmp

\* WalkDir: an entry, then (for a directory) its sorted children, each walked;
\* filter_entry yields no entry it rejects and does not descend into it
RECURSIVE walk_from(_, _)
walk_from(f, path) ==
    LET kids == sort_entries(f, {q \in Children(f, path) :
                                    ~app_options.skip_parent_tmp \/ is_not_hidden(q)})
    IN  <<path>> \o Concat([k \in 1..Len(kids) |-> walk_from(f, kids[k])])

\* the configuration files PatternMatcher::from_config_file panics on
PanickingFiles == {f \in ConfigFiles : construction_panics(PatternsConfig(f))}

\* main.rs:387-405: the PatternMatcher is built, then WalkDir reads the tree
from_config_file ==
    /\ pc = "config"
    /\ IF app_options.config_file \in PanickingFiles
       THEN pc' = "panic" /\ walk' = walk
       ELSE pc' = "walk" /\ walk' = walk_from(fs, Root)
    /\ UNCHANGED <<app_options, hash_order, fs, fs0, pos, operation_list, executed>>
    /\ UNCHANGED globVars

(***************************************************************************)
(* main.rs: the classification loop body (406-445)                         *)
(***************************************************************************)
Op(path, reason, op) == [path |-> path, pattern |-> reason, op |-> op]

Pushed(items) == [panicked |-> FALSE, items |-> items]

\* filepath.is_dir() && filepath.read_dir()?.next().is_none(): both follow
\* symbolic links
is_empty_dir(filepath) ==
    is_dir(fs, filepath) /\ Children(fs, resolve(fs, filepath)) = {}

\* what one iteration pushes on operation_list, or that it panicked
classify_entry(filepath) ==
    LET filename == Last(filepath)
        del == match_remove_pattern(filename)
        hsh == match_remove_hash(filepath)
        new_filename == clean_filename(filename)
        try_hash == app_options.enable_deletion /\ ~del.matched
                        /\ app_options.enable_hash_matching
    IN  IF app_options.enable_deletion /\ del.matched
        THEN Pushed(<<Op(filepath, del.pattern, "Delete")>>)
        ELSE IF try_hash /\ hsh.panicked
        THEN [panicked |-> TRUE, items |-> <<>>]
        ELSE IF try_hash /\ hsh.matched
        THEN Pushed(<<Op(filepath, hsh.pattern, "Delete")>>)
        ELSE IF app_options.enable_renaming /\ new_filename # filename
        THEN Pushed(<<Op(filepath, new_filename, "Rename")>>)
        ELSE IF app_options.enable_prune_empty_dir /\ is_empty_dir(filepath)
        THEN Pushed(<<Op(filepath, "<EMPTY_DIR>", "Delete"), Op(filepath, "", "None")>>)
        ELSE Pushed(<<Op(filepath, "", "None")>>)

classify ==
    /\ pc = "walk"
    /\ pos <= Len(walk)
    /\ LET r == classify_entry(walk[pos])
       IN  \/ /\ ~r.panicked
              /\ operation_list' = operation_list \o r.items
              /\ pos' = pos + 1
              /\ pc' = pc
           \/ /\ r.panicked
              /\ pc' = "panic"
              /\ UNCHANGED <<operation_list, pos>>
    /\ UNCHANGED <<app_options, hash_order, fs, fs0, walk, executed>>
    /\ UNCHANGED globVars

(***************************************************************************)
(* main.rs: retain and sort (457-467)                                      *)
(***************************************************************************)
\* a plan that keeps every classified entry
keep_all(list) == list

retain(list) == SelectSeq(list, LAMBDA e : e.op # "None")

depth(path) == Len(path)

\* a stable sort by depth, shallowest first
RECURSIVE sort_up(_, _)
sort_up(list, d) ==
    IF d > MaxDepth THEN <<>>
    ELSE SelectSeq(list, LAMBDA e : depth(e.path) = d) \o sort_up(list, d + 1)

shallowest_first(list) == sort_up(list, 1)

\* the stable sort by depth, deepest first: the items of depth d, in their
\* order in list, for d from the greatest depth down
RECURSIVE sort_from(_, _)
sort_from(list, d) ==
    IF d = 0 THEN <<>>
    ELSE SelectSeq(list, LAMBDA e : depth(e.path) = d) \o sort_from(list, d - 1)

sort_by_depth(list) == sort_from(list, MaxDepth)

\* a plan step that does not wait for the end of the walk
plan_early ==
    /\ pc = "walk"
    /\ pos > 1
    /\ operation_list' = sort_by_depth(retain(operation_list))
    /\ pc' = "delete"
    /\ pos' = 1
    /\ UNCHANGED <<app_options, hash_order, fs, fs0, walk, executed>>
    /\ UNCHANGED globVars

plan ==
    /\ pc = "walk"
    /\ pos > Len(walk)
    /\ operation_list' = sort_by_depth(retain(operation_list))
    /\ pc' = "delete"
    /\ pos' = 1
    /\ UNCHANGED <<app_options, hash_order, fs, fs0, walk, executed>>
    /\ UNCHANGED globVars

(***************************************************************************)
(* main.rs: execution (468-497), util.rs: remove_path                      *)
(***************************************************************************)
deletes == SelectSeq(operation_list, LAMBDA e : e.op = "Delete")
renames == SelectSeq(operation_list, LAMBDA e : e.op = "Rename")

exists(f, path) == path \in DOMAIN f

\* an executor that always acts
always_prune == TRUE

\* `if app_options.prune` (478, 492)
prune_enabled == app_options.prune

\* remove_file, else remove_dir_all: the entry and everything below it go
remove_path(f, path) == [q \in {x \in DOMAIN f : ~IsPrefix(path, x)} |-> f[q]]

set_file_name(path, name) == Append(Parent(path), name)

\* std::fs::rename(from, to) (rename(2)): whether it succeeds on f
rename_ok(f, from, to) ==
    /\ exists(f, from)
    /\ Last(to) # <<>>
    /\ exists(f, to) =>
          \/ f[from].kind # "dir" /\ f[to].kind # "dir"
          \/ f[from].kind = "dir" /\ f[to].kind = "dir" /\ Children(f, to) = {}

\* the filesystem after a successful rename: the subtree moves, replacing `to`
rename(f, from, to) ==
    LET moved == {x \in DOMAIN f : IsPrefix(from, x)}
        kept == {x \in DOMAIN f : ~IsPrefix(from, x) /\ ~IsPrefix(to, x)}
        dest(x) == to \o SubSeq(x, Len(from) + 1, Len(x))
        orig(q) == from \o SubSeq(q, Len(to) + 1, Len(q))
    IN  [q \in kept \cup {dest(x) : x \in moved} |->
            IF q \in kept THEN f[q] ELSE f[orig(q)]]

id_at(f, path) == IF exists(f, path) THEN f[path].id ELSE <<>>

delete_step ==
    /\ pc = "delete"
    /\ app_options.enable_deletion
    /\ pos <= Len(deletes)
    /\ LET file_path == deletes[pos].path
           acts == prune_enabled /\ path_exists(fs, file_path)
       IN  /\ fs' = IF acts THEN remove_path(fs, file_path) ELSE fs
           /\ executed' = Append(executed,
                                 [op |-> "Delete", path |-> file_path, target |-> file_path,
                                  issued |-> acts, ok |-> TRUE,
                                  src_existed |-> exists(fs, file_path),
                                  dst_existed |-> FALSE, dst_before |-> <<>>])
    /\ pos' = pos + 1
    /\ UNCHANGED <<app_options, hash_order, fs0, walk, operation_list, pc>>
    /\ UNCHANGED globVars

start_renames ==
    /\ pc = "delete"
    /\ ~app_options.enable_deletion \/ pos > Len(deletes)
    /\ pc' = "rename"
    /\ pos' = 1
    /\ UNCHANGED <<app_options, hash_order, fs, fs0, walk, operation_list, executed>>
    /\ UNCHANGED globVars

rename_step ==
    /\ pc = "rename"
    /\ app_options.enable_renaming
    /\ pos <= Len(renames)
    /\ LET file_path == renames[pos].path
           new_filepath == set_file_name(file_path, renames[pos].pattern)
           ok == ~prune_enabled \/ rename_ok(fs, file_path, new_filepath)
       IN  /\ fs' = IF prune_enabled /\ ok THEN rename(fs, file_path, new_filepath) ELSE fs
           /\ executed' = Append(executed,
                                 [op |-> "Rename", path |-> file_path,
                                  target |-> new_filepath, issued |-> prune_enabled,
                                  ok |-> ok, src_existed |-> exists(fs, file_path),
                                  dst_existed |-> exists(fs, new_filepath),
                                  dst_before |-> id_at(fs, new_filepath)])
           /\ pc' = IF ok THEN pc ELSE "failed"
    /\ pos' = pos + 1
    /\ UNCHANGED <<app_options, hash_order, fs0, walk, operation_list>>
    /\ UNCHANGED globVars

finish ==
    /\ pc = "rename"
    /\ ~app_options.enable_renaming \/ pos > Len(renames)
    /\ pc' = "done"
    /\ UNCHANGED <<app_options, hash_order, fs, fs0, walk, pos, operation_list, executed>>
    /\ UNCHANGED globVars

\* the lines one iteration of the delete loop (println at 472-476, verbose
\* off) or of the rename loop (println at 489 and, under --prune, 493) prints
log_lines(step) ==
    IF step.op = "Delete"
    THEN << [tag |-> "[-]", path |-> step.path, text |-> <<>>] >>
    ELSE << [tag |-> "[*]", path |-> step.path, text |-> Last(step.target)] >>
         \o (IF step.issued
             THEN << [tag |-> "-->", path |-> step.target, text |-> <<>>] >>
             ELSE <<>>)

\* standard output of the run so far
log == Concat([k \in 1..Len(executed) |-> log_lines(executed[k])])

(***************************************************************************)
(* Spec: main on every tree, flag combination and HashMap order            *)
(***************************************************************************)
Flags ==
    [enable_deletion : BOOLEAN, enable_hash_matching : BOOLEAN,
     enable_renaming : BOOLEAN, enable_prune_empty_dir : BOOLEAN, prune : BOOLEAN,
     config_file : ConfigFiles, skip_parent_tmp : {TRUE}]

Init ==
    /\ GlobStart
    /\ input = [chars |-> {}, max_len |-> 0]
    /\ app_options \in Flags
    /\ hash_order \in create_patterns_with_hash
    /\ fs \in TreesUpTo(MaxEntries)
    /\ fs0 = fs
    /\ walk = <<>>
    /\ pos = 1
    /\ operation_list = <<>>
    /\ executed = <<>>
    /\ pc = "config"

Next ==
    \/ from_config_file
    \/ classify
    \/ plan
    \/ delete_step
    \/ start_renames
    \/ rename_step
    \/ finish

Spec == Init /\ [][Next]_vars

(***************************************************************************)
(* TmpSpec: main on the trees that hold entries named `.tmp`               *)
(***************************************************************************)
\* most entries below the target directory of a tree with `.tmp` entries
MaxTmpEntries == 3

TmpInit ==
    LET TmpNames == {NameB, NameX, NameTmp}
        Paths == {Append(Root, n) : n \in TmpNames}
                     \cup {<<NameR, n, m>> : n \in TmpNames, m \in TmpNames}
        Shapes == {S \in SUBSET Paths :
                      /\ Cardinality(S) <= MaxTmpEntries
                      /\ \E p \in S : Last(p) = NameTmp
                      /\ \A p \in S : Len(p) = 3 => Parent(p) \in S}
        Kinds(S) == {k \in [S -> {"dir", "file"}] :
                        \A p \in S : Len(p) = 3 => k[Parent(p)] = "dir"}
        Tree(S, k) == (Root :> MkDir(Root))
                          @@ [p \in S |-> IF k[p] = "dir" THEN MkDir(p) ELSE MkFile(p, "h1")]
    IN  /\ GlobStart
        /\ input = [chars |-> {}, max_len |-> 0]
        /\ app_options \in {[o EXCEPT !.skip_parent_tmp = t] : o \in Flags, t \in BOOLEAN}
        /\ hash_order \in create_patterns_with_hash
        /\ fs \in UNION {{Tree(S, k) : k \in Kinds(S)} : S \in Shapes}
        /\ fs0 = fs
        /\ walk = <<>>
        /\ pos = 1
        /\ operation_list = <<>>
        /\ executed = <<>>
        /\ pc = "config"

TmpSpec == TmpInit /\ [][Next]_vars

(***************************************************************************)
(* LinkSpec: main on the trees that hold symbolic links                    *)
(***************************************************************************)
\* most entries below the target directory of a tree with symbolic links
MaxLinkEntries == 2

\* the paths a symbolic link points to
LinkTargets == {Append(Root, NameA), Append(Root, NameB)}

LinkKinds(path) == EntryKinds(path) \cup {MkLink(path, t) : t \in LinkTargets \ {path}}

\* every filesystem with one more entry, possibly a symbolic link, than f
GrowLinks(f) ==
    LET slots == {x \in {d \in DOMAIN f : f[d].kind = "dir" /\ Len(d) < MaxDepth} \X Names :
                      Append(x[1], x[2]) \notin DOMAIN f}
    IN  UNION {{f @@ (Append(x[1], x[2]) :> e) : e \in LinkKinds(Append(x[1], x[2]))} :
                  x \in slots}

RECURSIVE LinkTreesUpTo(_)
LinkTreesUpTo(n) ==
    IF n = 0 THEN {(Root :> MkDir(Root))}
    ELSE LET smaller == LinkTreesUpTo(n - 1)
         IN  smaller \cup UNION {GrowLinks(f) : f \in smaller}

HasLink(f) == \E p \in DOMAIN f : f[p].kind = "symlink"

LinkInit ==
    /\ GlobStart
    /\ input = [chars |-> {}, max_len |-> 0]
    /\ app_options \in Flags
    /\ hash_order \in create_patterns_with_hash
    /\ fs \in {f \in LinkTreesUpTo(MaxLinkEntries) : HasLink(f)}
    /\ fs0 = fs
    /\ walk = <<>>
    /\ pos = 1
    /\ operation_list = <<>>
    /\ executed = <<>>
    /\ pc = "config"

LinkSpec == LinkInit /\ [][Next]_vars

(***************************************************************************)
(* Claims about the glob compiler (checked under GlobSpec)                 *)
(***************************************************************************)
\* the last transition was handle_literal consuming the top-level character chr
TopLevel(chr) == last.handler = "handle_literal" /\ last.consumed = <<chr>>

\* the last transition closed a class that the glob did not negate with `!`
ClosedPlainClass == last.closed # <<>> /\ ~last.closed[1].negated

\* C1: the fragment emitted for an unescaped top-level `*` matches exactly the
\* texts without `/`, the fragment emitted for `?` matches exactly the one-character
\* texts other than `/`, and the compilation of `a*a` does not match `a/a`.
C1_WildcardsNeverMatchSlash ==
    /\ TopLevel(STAR) =>
          \A t \in Texts : is_match(last.emitted[1], t) <=> ~Contains(t, SLASH)
    /\ TopLevel(QMARK) =>
          \A t \in Texts : is_match(last.emitted[1], t) <=> (Len(t) = 1 /\ t[1] # SLASH)
    /\ (state.name = "End" /\ pattern = <<LOWER_A, STAR, LOWER_A>>) =>
          ~is_match(glob_to_regex_string, <<LOWER_A, SLASH, LOWER_A>>)

\* C2: the bracket expression close_class emits for a class not negated by `!`
\* never accepts `/`.
C2_PlainClassNeverMatchesSlash ==
    ClosedPlainClass => SLASH \notin ClassAccepts(last.emitted[1], 1)

(***************************************************************************)
(* Claims about the pipeline of main.rs                                    *)
(***************************************************************************)
Planned == pc \in {"delete", "rename", "done", "failed"}

PlanIndex == 1..Len(operation_list)

MarkedDelete(q) ==
    \E i \in PlanIndex : operation_list[i].op = "Delete" /\ operation_list[i].path = q

MarkedRename(q) ==
    \E i \in PlanIndex : operation_list[i].op = "Rename" /\ operation_list[i].path = q

UnderDelete(q) == \E p \in DOMAIN fs0 : IsAncestor(p, q) /\ MarkedDelete(p)

Steps == 1..Len(executed)

\* C3: a Rename below a planned Delete ends up Delete, the executor never
\* attempts a rename on it, and no rename fails because its source went away
\* with a deleted ancestor.
C3_AncestorPropagation ==
    /\ Planned => \A q \in DOMAIN fs0 : UnderDelete(q) => ~MarkedRename(q)
    /\ \A k \in Steps : executed[k].op = "Rename" => ~UnderDelete(executed[k].path)
    /\ \A k \in Steps :
          (executed[k].op = "Rename" /\ executed[k].issued) =>
              (executed[k].src_existed /\ executed[k].ok)

\* C4: in the plan handed to the executor, every walked descendant of a path
\* marked Delete is marked Delete.
C4_DescendantsOfDeleteAreDelete ==
    Planned => \A q \in DOMAIN fs0 : UnderDelete(q) => MarkedDelete(q)

\* C5: with empty-directory pruning enabled, a directory all of whose children
\* are marked Delete is marked Delete (so in r/a/b with b matched by a delete
\* pattern, a is marked Delete).
C5_EmptyDirectoryCascade ==
    (Planned /\ app_options.enable_prune_empty_dir) =>
        \A d \in DOMAIN fs0 :
            (/\ d # Root
             /\ fs0[d].kind = "dir"
             /\ Children(fs0, d) # {}
             /\ \A c \in Children(fs0, d) : MarkedDelete(c)) => MarkedDelete(d)

\* C6: a Rename whose destination exists does not use that destination: it
\* succeeds under another name and the entry that was there stays in place.
C6_RenameCollisionResolved ==
    (/\ executed # <<>>
     /\ Last(executed).op = "Rename"
     /\ Last(executed).issued
     /\ Last(executed).dst_existed) =>
        /\ Last(executed).ok
        /\ id_at(fs, Last(executed).target) = Last(executed).dst_before
        /\ \E q \in DOMAIN fs : q # Last(executed).target /\ fs[q].id = Last(executed).path

\* C7: Delete steps run in non-increasing depth, so the step of a descendant
\* comes before the step of its ancestor.
C7_DeleteDeepestFirst ==
    \A i \in Steps : \A j \in Steps :
        (i < j /\ executed[i].op = "Delete" /\ executed[j].op = "Delete") =>
            /\ depth(executed[i].path) >= depth(executed[j].path)
            /\ ~IsAncestor(executed[i].path, executed[j].path)

C7_DescendantThenAncestor ==
    \E i \in Steps : \E j \in Steps :
        /\ i < j
        /\ executed[i].op = "Delete" /\ executed[j].op = "Delete"
        /\ executed[i].issued
        /\ IsAncestor(executed[j].path, executed[i].path)

\* the rule a walked entry falls under, by the priority list: 1 name pattern,
\* 2 hash-gated pattern, 3 rename, 4 empty directory, 5 none
HashApplies(q) ==
    /\ fs0[q].kind = "file"
    /\ \E p \in remove_hash : IsMatch(p.re, Last(q)) /\ fs0[q].hash \in p.hash_list

FirstRule(q) ==
    IF app_options.enable_deletion /\ (\E i \in 1..Len(patterns_to_remove) :
                                          IsMatch(patterns_to_remove[i], Last(q)))
    THEN 1
    ELSE IF app_options.enable_deletion /\ app_options.enable_hash_matching /\ HashApplies(q)
    THEN 2
    ELSE IF app_options.enable_renaming /\ clean_filename(Last(q)) # Last(q)
    THEN 3
    ELSE IF app_options.enable_prune_empty_dir /\ fs0[q].kind = "dir" /\ Children(fs0, q) = {}
    THEN 4
    ELSE 5

FirstPattern(q) ==
    patterns_to_remove[CHOOSE i \in 1..Len(patterns_to_remove) :
                          /\ IsMatch(patterns_to_remove[i], Last(q))
                          /\ \A k \in 1..(i - 1) : ~IsMatch(patterns_to_remove[k], Last(q))].src

\* whether a recorded entry is what rule n gives for its path
ByRule(e, n) ==
    CASE n = 1 -> e.op = "Delete" /\ e.pattern = FirstPattern(e.path)
      [] n = 2 -> e.op = "Delete" /\ e.pattern \notin {"<EMPTY_DIR>", ""}
      [] n = 3 -> e.op = "Rename" /\ e.pattern = clean_filename(Last(e.path))
      [] n = 4 -> e.op = "Delete" /\ e.pattern = "<EMPTY_DIR>"
      [] OTHER -> e.op = "None"

Recorded(q) == SelectSeq(operation_list, LAMBDA e : e.path = q)

\* C8: for every classified entry the classification records the operation of
\* the first applicable rule and applies no lower rule to it.
C8_FirstApplicableRuleOnly ==
    pc = "walk" =>
        \A k \in 1..(pos - 1) :
            /\ Len(Recorded(walk[k])) = 1
            /\ ByRule(Recorded(walk[k])[1], FirstRule(walk[k]))

NameReasons == {patterns_to_remove[i].src : i \in 1..Len(patterns_to_remove)}

HashGated(p, q) ==
    /\ IsMatch(p.re, Last(q))
    /\ fs0[q].kind = "file"
    /\ fs0[q].hash \in p.hash_list

\* C9: an entry is Delete by a hash-gated pattern only if its name matches
\* that pattern and its digest is among that same pattern's digests, in
\* main.rs's match_remove_hash and in pmatcher.rs's.
C9_HashGatedDelete ==
    /\ \A i \in PlanIndex :
          (/\ operation_list[i].op = "Delete"
           /\ operation_list[i].pattern \notin NameReasons \cup {"<EMPTY_DIR>"}) =>
              \E p \in remove_hash :
                  /\ operation_list[i].pattern = p.re.src \o ":" \o fs0[operation_list[i].path].hash
                  /\ HashGated(p, operation_list[i].path)
    /\ pc = "walk" =>
          \A q \in DOMAIN fs : \A large \in BOOLEAN :
              pmatcher_match_remove_hash(q, large).matched =>
                  \E p \in remove_hash :
                      /\ pmatcher_match_remove_hash(q, large).pattern
                             = p.re.src \o ":" \o fs0[q].hash
                      /\ HashGated(p, q)

C9_HashDeleteRecorded ==
    /\ Planned
    /\ \E i \in PlanIndex :
          /\ operation_list[i].op = "Delete"
          /\ operation_list[i].pattern \notin NameReasons \cup {"<EMPTY_DIR>"}
    /\ \E q \in DOMAIN fs0 :
          /\ Last(q) = NameXA /\ fs0[q].kind = "file" /\ fs0[q].hash = "h2"
          /\ ~MarkedDelete(q)

\* C10: without the prune flag no delete and no rename is issued and the
\* filesystem stays as it was.
C10_DryRunLeavesTree ==
    ~app_options.prune =>
        /\ fs = fs0
        /\ \A k \in Steps : ~executed[k].issued

C10_DryRunFinished ==
    /\ ~app_options.prune
    /\ pc = "done"
    /\ \E k \in Steps : executed[k].op = "Delete"
    /\ \E k \in Steps : executed[k].op = "Rename"

PlannedRenames == SelectSeq(operation_list, LAMBDA e : e.op = "Rename")

Stopped == pc \in {"done", "failed"}

\* a step that failed although its source was there: an I/O error other than
\* not-found
FailedOtherwise(k) == ~executed[k].ok /\ executed[k].src_existed

\* C11: an item failing with an error other than not-found is skipped and
\* every remaining planned operation is still executed: when the run has
\* stopped, every planned Rename had its step.
C11_FailureDoesNotStopThePlan ==
    (Stopped /\ \E k \in Steps : FailedOtherwise(k)) =>
        \A i \in 1..Len(PlannedRenames) :
            \E k \in Steps : /\ executed[k].op = "Rename"
                             /\ executed[k].path = PlannedRenames[i].path

(***************************************************************************)
(* More claims about the glob compiler                                     *)
(***************************************************************************)
ClosedNegatedClass == last.closed # <<>> /\ last.closed[1].negated

CoversSlash(item) == item.a <= SLASH /\ SLASH <= item.b

SlashCovered(acc) == \E i \in 1..Len(acc.items) : CoversSlash(acc.items[i])

\* C15: the bracket expression emitted for a negated class never accepts `/`,
\* and when no member or range of the class covers `/`, the `/` is added to
\* the negated set.
C15_NegatedClassNeverMatchesSlash ==
    ClosedNegatedClass =>
        /\ SLASH \notin ClassAccepts(last.emitted[1], 1)
        /\ ClassNegated(last.emitted[1], 1)
        /\ ~SlashCovered(last.closed[1]) =>
              handle_slash(last.closed[1]).items = Append(last.closed[1].items, Char(SLASH))

\* the pattern characters handle_literal gives a meaning of their own
GlobSpecials == {QMARK, STAR, LBRACKET, BACKSLASH, LBRACE}

\* the last transition read the character chr as a literal, outside classes
\* and alternations
LiteralRead(chr) == TopLevel(chr) /\ chr \notin GlobSpecials

\* the texts of at most one character, and chr twice
ProbeTexts(chr) == SeqsUpTo(Alphabet, 1) \cup {<<chr, chr>>}

\* C16: the fragment emitted for a literal character outside a class or
\* alternation matches exactly that one character, whatever the character.
C16_LiteralsMatchThemselves ==
    \A chr \in Alphabet :
        LiteralRead(chr) =>
            \A t \in ProbeTexts(chr) : is_match(last.emitted[1], t) <=> t = <<chr>>

\* the step handler took reading one character
Read(handler) == last'.handler = handler /\ Len(last'.consumed) = 1

LastItem(acc) == acc.items[Len(acc.items)]

\* C18: a dash after a completed range, followed by anything but `]`, fails
\* with RangeAfterRange and that range's bounds; a range whose start is greater
\* than its end fails with ReversedRange(start, end); no regex is produced.
C18_RangeErrors ==
    /\ [][ /\ (/\ state.name = "ClassRangeDash"
               /\ Read("handle_class_range_dash")
               /\ last'.consumed[1] # RBRACKET) =>
                  /\ LastItem(state.acc).t = "Range"
                  /\ error'.kind = "RangeAfterRange"
                  /\ error'.a = LastItem(state.acc).a
                  /\ error'.b = LastItem(state.acc).b
                  /\ out' = out
           /\ (/\ state.name = "ClassRange"
               /\ Read("handle_class_range")
               /\ last'.consumed[1] \notin {BACKSLASH, RBRACKET}
               /\ state.start > last'.consumed[1]) =>
                  /\ error'.kind = "ReversedRange"
                  /\ error'.a = state.start
                  /\ error'.b = last'.consumed[1]
                  /\ out' = out ]_vars
    /\ [](error.kind \in {"RangeAfterRange", "ReversedRange"} =>
              /\ state.name # "End"
              /\ ~ENABLED GlobNext)

C18_DashAfterRangeFailed ==
    /\ error.kind = "RangeAfterRange"
    /\ error.a < error.b
    /\ last.consumed # <<RBRACKET>>

\* the whole pattern p was compiled
Compiled(p) == state.name = "End" /\ pattern = p

\* the texts of at most two characters
PairTexts == SeqsUpTo(Alphabet, 2)

\* C19: a `]` first in a class, possibly after `!`, is a member and does not
\* close the class; `[]]` matches exactly `]`, `[!]]` matches any one character
\* but `]` and `/`.
C19_LeadingBracketIsMember ==
    /\ [](Compiled(<<LBRACKET, RBRACKET, RBRACKET>>) =>
             \A t \in PairTexts : is_match(glob_to_regex_string, t) <=> t = <<RBRACKET>>)
    /\ [](Compiled(<<LBRACKET, BANG, RBRACKET, RBRACKET>>) =>
             \A t \in PairTexts :
                 is_match(glob_to_regex_string, t)
                     <=> (Len(t) = 1 /\ t[1] \notin {RBRACKET, SLASH}))
    /\ [][ /\ (state.name = "ClassStart" /\ Read("handle_class_start")
                   /\ last'.consumed[1] = RBRACKET) =>
                  state' = InClass("Class", NewAcc(FALSE, <<Char(RBRACKET)>>)) /\ out' = out
           /\ (state.name = "Class" /\ state.acc.items = <<>> /\ Read("handle_class")
                   /\ last'.consumed[1] = RBRACKET) =>
                  /\ state' = InClass("Class", NewAcc(state.acc.negated, <<Char(RBRACKET)>>))
                  /\ out' = out ]_vars

C19_NegatedBracketCompiled ==
    /\ Compiled(<<LBRACKET, BANG, RBRACKET, RBRACKET>>)
    /\ is_match(glob_to_regex_string, <<LOWER_A>>)

\* the comma-separated runs of an alternation body
RECURSIVE SplitComma(_, _)
SplitComma(body, current) ==
    IF body = <<>> THEN {current}
    ELSE IF Head(body) = COMMA THEN {current} \cup SplitComma(Tail(body), <<>>)
    ELSE SplitComma(Tail(body), Append(current, Head(body)))

AlternationBody == SubSeq(pattern, 2, Len(pattern) - 1)

\* the whole pattern is one closed alternation of plain characters
OneAlternation ==
    /\ state.name = "End"
    /\ Len(pattern) >= 2
    /\ pattern[1] = LBRACE
    /\ pattern[Len(pattern)] = RBRACE
    /\ \A i \in 2..(Len(pattern) - 1) : pattern[i] \notin {RBRACE, BACKSLASH, LBRACKET}

\* C20: `{}` compiles to a fragment matching exactly the text `{}`; any other
\* alternation compiles to a group that matches exactly its alternatives.
C20_AlternationCompiles ==
    OneAlternation =>
        IF AlternationBody = <<>>
        THEN /\ out[2] = <<BACKSLASH, LBRACE, BACKSLASH, RBRACE>>
             /\ \A t \in PairTexts :
                    is_match(glob_to_regex_string, t) <=> t = <<LBRACE, RBRACE>>
        ELSE /\ out[2][1] = LPAREN
             /\ out[2][Len(out[2])] = RPAREN
             /\ \A t \in PairTexts :
                    is_match(glob_to_regex_string, t)
                        <=> t \in SplitComma(AlternationBody, <<>>)

\* no base name matches a remove or a hash pattern, no cleanup pattern changes
\* a name, no directory is empty
Clean(f) ==
    \A p \in DOMAIN f :
        /\ \A i \in 1..Len(patterns_to_remove) : ~IsMatch(patterns_to_remove[i], Last(p))
        /\ \A h \in remove_hash : ~IsMatch(h.re, Last(p))
        /\ \A i \in 1..Len(patterns_to_rename) :
               replace_all(patterns_to_rename[i], Last(p)) = Last(p)
        /\ f[p].kind = "dir" => Children(f, p) # {}

\* C13: on a clean tree the plan is empty under every flag combination, the
\* run neither panics nor fails, nothing is executed and the tree is left as it
\* was, so that a second run starts from the same tree and plans the same.
C13_CleanTreeEmptyPlan ==
    (Clean(fs0) /\ app_options.config_file = "patterns.yml") =>
        /\ pc \notin {"panic", "failed"}
        /\ Planned => operation_list = <<>>
        /\ executed = <<>>
        /\ fs = fs0

C13_CleanTreeRunFinished ==
    /\ Clean(fs0)
    /\ pc = "done"
    /\ Cardinality(DOMAIN fs0) = 3
    /\ app_options = [enable_deletion |-> TRUE, enable_hash_matching |-> TRUE,
                      enable_renaming |-> TRUE, enable_prune_empty_dir |-> TRUE,
                      prune |-> TRUE, config_file |-> "patterns.yml",
                      skip_parent_tmp |-> TRUE]

\* C14: a directory whose cleaned name is empty is never planned as a Rename
\* to the empty name (it is to be a MoveToParent, whose execution moves the
\* children up and removes the directory).
C14_EmptyNameIsMoveToParent ==
    Planned =>
        \A i \in PlanIndex :
            (operation_list[i].op = "Rename" /\ fs0[operation_list[i].path].kind = "dir") =>
                operation_list[i].pattern # <<>>

GlobStopped == state.name = "End" \/ error # NoError

\* C17: a cleanup entry is constructed as a remove entry is: the raw regex
\* after a leading `/`, the compiled glob otherwise.
C17_CleanupBuiltLikeRemove ==
    (GlobStopped /\ pattern # <<>>) =>
        create_regex_list(<<pattern>>) = create_mixed_regex_list(<<pattern>>)

\* some remove, remove_hash or cleanup pattern of the configuration does not
\* compile: a glob error, or a regex that Regex::new rejects
HasMalformedPattern(config) ==
    \/ \E i \in 1..Len(config.remove) : ~parse_mixed_regex(config.remove[i]).ok
    \/ \E i \in 1..Len(config.remove_hash) : ~glob_regex(config.remove_hash[i]).ok
    \/ \E i \in 1..Len(config.cleanup) : ~regex_new(trim(config.cleanup[i])).ok

MalformedFiles == {f \in ConfigFiles : HasMalformedPattern(PatternsConfig(f))}

Malformed == app_options.config_file \in MalformedFiles

\* C12: with a malformed pattern in the configuration main never gets past
\* the construction of the PatternMatcher: nothing is walked, classified or
\* executed, the tree stays as it was, and the run ends in the panic.
C12_MalformedConfigAborts ==
    /\ [](Malformed =>
             /\ pc \in {"config", "panic"}
             /\ walk = <<>> /\ pos = 1
             /\ operation_list = <<>>
             /\ executed = <<>>
             /\ fs = fs0)
    /\ [][(Malformed /\ pc = "config") => pc' = "panic"]_vars
    /\ [](MalformedFiles = ConfigFiles \ {"patterns.yml"})

C12_AbortedOnMalformedGlob ==
    /\ pc = "panic"
    /\ app_options.config_file = "bad_glob.yml"
    /\ Cardinality(DOMAIN fs0) > 1
    /\ app_options.prune

PruneRun == app_options.prune /\ app_options.config_file = "patterns.yml"

\* a walked path the plan leaves alone: its own operation is None and no
\* ancestor of it is planned Delete
LeftAlone(p) == ~MarkedDelete(p) /\ ~MarkedRename(p) /\ ~UnderDelete(p)

\* the entry that was at p when main started is still somewhere in the tree
Survives(p) == \E q \in DOMAIN fs : fs[q] = fs0[p]

\* C21: after a prune run every entry the plan leaves alone is still there
\* with its original content; no Rename destroys the entry at its destination.
C21_UntouchedEntriesSurvive ==
    (Stopped /\ PruneRun) => \A p \in DOMAIN fs0 : LeftAlone(p) => Survives(p)

\* the entry that was at p when main started is nowhere in the tree
Gone(p) == \A q \in DOMAIN fs : fs[q].id # p

\* C22: after a prune run that finished without error no entry planned Delete
\* is left in the tree, whatever the enable flags.
C22_DeletedPathsAreGone ==
    (pc = "done" /\ PruneRun) => \A p \in DOMAIN fs0 : MarkedDelete(p) => Gone(p)

\* the entries the classification recorded for q
EntriesFor(q) == {i \in PlanIndex : operation_list[i].path = q}

\* C24: the classification records exactly one entry for each entry it has
\* walked, and no path ever has two entries in operation_list.
C24_OneOperationPerPath ==
    /\ \A q \in DOMAIN fs0 : Cardinality(EntriesFor(q)) <= 1
    /\ pc = "walk" => \A k \in 1..(pos - 1) : Cardinality(EntriesFor(walk[k])) = 1

\* the characters the members and ranges of a glob class list
Listed(acc) == UNION {acc.items[i].a .. acc.items[i].b : i \in 1..Len(acc.items)}

\* C23: a class is emitted negated exactly if the glob negated it with `!`; a
\* class that is not negated is emitted as an expression accepting exactly its
\* listed members and ranges without `/`.
C23_NegatedOnlyByBang ==
    /\ ClosedNegatedClass => ClassNegated(last.emitted[1], 1)
    /\ ClosedPlainClass =>
          /\ ~ClassNegated(last.emitted[1], 1)
          /\ ClassAccepts(last.emitted[1], 1) = (Listed(last.closed[1]) \cap Alphabet) \ {SLASH}

GoodConfig == app_options.config_file = "patterns.yml"

\* C29: a digest that cannot be computed never aborts the run: with a
\* well-formed configuration the classification never panics, and an entry
\* whose content cannot be read is classified by the rules after the hash rule.
C29_DigestSoftFail ==
    GoodConfig =>
        /\ pc # "panic"
        /\ pc = "walk" =>
              \A k \in 1..(pos - 1) :
                  fs0[walk[k]].kind # "file" =>
                      \A i \in EntriesFor(walk[k]) :
                          operation_list[i].op = "Delete" =>
                              operation_list[i].pattern \in NameReasons \cup {"<EMPTY_DIR>"}

\* C28: nothing is deleted or renamed before the walk is over: while main is
\* building the PatternMatcher or classifying, the tree is the one it started
\* with and no step has been executed; the classification is left only after
\* the last walked entry (or by a panic), and only the delete and the rename
\* loop change the tree.
C28_ClassifyBeforeExecute ==
    /\ [](pc \in {"config", "walk"} => (fs = fs0 /\ executed = <<>>))
    /\ [][(pc = "walk" /\ pc' # "walk") => (pc' = "panic" \/ pos > Len(walk))]_vars
    /\ [][(fs' # fs \/ executed' # executed) => pc \in {"delete", "rename"}]_vars

C28_ExecutedAfterFullWalk ==
    /\ executed # <<>>
    /\ fs # fs0
    /\ Len(walk) >= 3

\* the step just taken is the rename loop handling the plan's Rename of path p
RenameStepOf(p) ==
    /\ executed' # executed
    /\ Last(executed').op = "Rename"
    /\ Last(executed').path = p

\* C27: Rename steps run in non-increasing depth, a descendant before its
\* ancestor, and when a Rename is executed its recorded path still denotes the
\* entry it was planned for.
C27_RenameDeepestFirst ==
    /\ [](\A i \in Steps : \A j \in Steps :
             (i < j /\ executed[i].op = "Rename" /\ executed[j].op = "Rename") =>
                 /\ depth(executed[i].path) >= depth(executed[j].path)
                 /\ ~IsAncestor(executed[i].path, executed[j].path))
    /\ [][\A p \in DOMAIN fs0 : RenameStepOf(p) => (exists(fs, p) /\ fs[p].id = p)]_vars

\* what the classification loop and retain would yield on the tree as it is
\* now: the entries pushed for each walked path, None dropped
next_plan ==
    IF ~exists(fs, Root) THEN <<>>
    ELSE LET w == walk_from(fs, Root)
         IN  retain(Concat([k \in 1..Len(w) |-> classify_entry(w[k]).items]))

next_run_panics ==
    exists(fs, Root) /\ \E q \in DOMAIN fs : classify_entry(q).panicked

AllRules ==
    /\ app_options.enable_deletion
    /\ app_options.enable_hash_matching
    /\ app_options.enable_renaming
    /\ app_options.enable_prune_empty_dir

\* C26: after a prune run with all rules enabled that finished without error,
\* planning again on the resulting tree yields an empty plan.
C26_SecondPlanEmpty ==
    (pc = "done" /\ PruneRun /\ AllRules) => (~next_run_panics /\ next_plan = <<>>)

(***************************************************************************)
(* The pipeline as a function of the order the walk delivers the entries   *)
(* in, for the claims that compare runs.                                   *)
(***************************************************************************)
RECURSIVE Perms(_)
Perms(S) ==
    IF S = {} THEN {<<>>}
    ELSE UNION {{<<x>> \o q : q \in Perms(S \ {x})} : x \in S}

\* every concatenation of one sequence from each set of ss, in order
RECURSIVE ConcatChoices(_)
ConcatChoices(ss) ==
    IF ss = <<>> THEN {<<>>}
    ELSE {h \o t : h \in Head(ss), t \in ConcatChoices(Tail(ss))}

\* the orders a depth-first walk can deliver the tree below path in: the
\* entry, then its children's subtrees, the children in any order
RECURSIVE walk_orders(_, _)
walk_orders(f, path) ==
    {<<path>> \o r :
        r \in UNION {ConcatChoices([k \in 1..Len(ks) |-> walk_orders(f, ks[k])]) :
                        ks \in Perms({q \in Children(f, path) :
                                         ~app_options.skip_parent_tmp \/ is_not_hidden(q)})}}

\* operation_list after the classification loop over w, retain and sort
plan_of(w) ==
    sort_by_depth(retain(Concat([k \in 1..Len(w) |-> classify_entry(w[k]).items])))

\* the delete loop from its i-th item on
RECURSIVE run_deletes(_, _, _)
run_deletes(f, list, i) ==
    IF ~app_options.enable_deletion \/ i > Len(list) THEN f
    ELSE run_deletes(IF prune_enabled /\ path_exists(f, list[i].path)
                     THEN remove_path(f, list[i].path) ELSE f,
                     list, i + 1)

\* the rename loop from its i-th item on; the first failing rename ends it
RECURSIVE run_renames(_, _, _)
run_renames(f, list, i) ==
    IF ~app_options.enable_renaming \/ i > Len(list) THEN f
    ELSE LET new_filepath == set_file_name(list[i].path, list[i].pattern)
         IN  IF ~prune_enabled THEN run_renames(f, list, i + 1)
             ELSE IF rename_ok(f, list[i].path, new_filepath)
             THEN run_renames(rename(f, list[i].path, new_filepath), list, i + 1)
             ELSE f

\* the tree main leaves when it executes the plan list on the tree f
run_plan(f, list) ==
    run_renames(run_deletes(f, SelectSeq(list, LAMBDA e : e.op = "Delete"), 1),
                SelectSeq(list, LAMBDA e : e.op = "Rename"), 1)

\* the plan is made and nothing of it is executed yet
PlanReady == pc = "delete" /\ pos = 1 /\ executed = <<>>

C30_OnlyRealEmptyDirectories ==
    \A i \in PlanIndex :
        (operation_list[i].op = "Delete" /\ operation_list[i].pattern = "<EMPTY_DIR>") =>
            /\ fs0[operation_list[i].path].kind = "dir"
            /\ Children(fs0, operation_list[i].path) = {}

\* the entries the classification loop has gone through
Classified ==
    {walk[k] : k \in 1..(IF pc \in {"walk", "panic"} THEN pos - 1 ELSE Len(walk))}

\* the name with every match of the cleanup regex `x` taken out
Stripped(name) == SelectSeq(name, LAMBDA c : c # 120)

\* the entry was handed to the cleanup: renaming is on and no remove or hash
\* pattern made it a Delete
Cleaned(q) ==
    /\ app_options.enable_renaming
    /\ \A i \in EntriesFor(q) :
           operation_list[i].op = "Delete" => operation_list[i].pattern = "<EMPTY_DIR>"

\* the path a Path value denotes: the trailing separator that an empty file
\* name leaves is not a component
Denoted(path) == IF Last(path) = <<>> THEN Parent(path) ELSE path

\* C31: a Rename carries the base name with every cleanup match removed, an
\* entry handed to the cleanup is a Rename exactly when that name differs from
\* its own, and the destination of every executed Rename lies in the directory
\* of its source.
C31_RenameCleansBaseNameInPlace ==
    /\ \A i \in PlanIndex :
           operation_list[i].op = "Rename" =>
               operation_list[i].pattern = Stripped(Last(operation_list[i].path))
    /\ \A q \in Classified :
           Cleaned(q) => (MarkedRename(q) <=> Stripped(Last(q)) # Last(q))
    /\ \A k \in Steps :
           executed[k].op = "Rename" =>
               /\ Denoted(executed[k].target) # Root
               /\ Parent(Denoted(executed[k].target)) = Parent(executed[k].path)

\* C32: every planned Rename carries a non-empty base name, and the destination
\* of an executed rename is an entry inside the parent of its source, never
\* that parent itself.
C32_RenameNameNeverEmpty ==
    /\ \A i \in PlanIndex :
           operation_list[i].op = "Rename" => operation_list[i].pattern # <<>>
    /\ \A k \in Steps :
           executed[k].op = "Rename" =>
               Denoted(executed[k].target) # Parent(executed[k].path)

\* the lines a dry run prints for the plan: one for each Delete when deletion
\* is enabled, then one for each Rename when renaming is enabled
DryRunLog ==
    (IF app_options.enable_deletion
     THEN [k \in 1..Len(deletes) |-> [tag |-> "[-]", path |-> deletes[k].path, text |-> <<>>]]
     ELSE <<>>)
    \o (IF app_options.enable_renaming
        THEN [k \in 1..Len(renames) |->
                 [tag |-> "[*]", path |-> renames[k].path, text |-> renames[k].pattern]]
        ELSE <<>>)

\* C33: the plan does not depend on the prune flag, and a run that has ended
\* has printed the lines of the dry run of its plan, with the prune flag set
\* as without it.
C33_PruneRunLogsAsDryRun == Stopped => log = DryRunLog

\* the entry is named `.tmp` or lies below a directory named `.tmp`
InTmp(p) == \E k \in 2..Len(p) : p[k] = NameTmp

\* the entry is where and what it was when the run began
InPlace(p) == exists(fs, p) /\ fs[p] = fs0[p]

\* C34: with skip-tmp set, no entry named `.tmp` or below a `.tmp` directory
\* is put on the operation list, and a prune run leaves every such entry where
\* and as it was.
C34_TmpEntriesUntouched ==
    (app_options.skip_parent_tmp /\ app_options.config_file = "patterns.yml") =>
        /\ \A i \in PlanIndex : ~InTmp(operation_list[i].path)
        /\ \A p \in DOMAIN fs0 : InTmp(p) => InPlace(p)

ClassStates == {"ClassStart", "Class", "ClassEscape", "ClassRange", "ClassRangeDash"}
AlternateStates == {"Alternate", "AlternateEscape"}

\* the error due when the pattern ends in the named state
ErrorAtEnd(name) ==
    CASE name = "Escape" -> "BareEscape"
      [] name \in ClassStates -> "UnclosedClass"
      [] name \in AlternateStates -> "UnclosedAlternation"

\* C35: when the pattern ends right after a top-level backslash, inside a class
\* or inside an alternation, the call fails with BareEscape, UnclosedClass or
\* UnclosedAlternation and emits nothing; a failed parse never reaches End.
C35_UnterminatedConstructsFail ==
    /\ [][(state.name \in {"Escape"} \cup ClassStates \cup AlternateStates
               /\ pattern' = pattern)
             => (error'.kind = ErrorAtEnd(state.name) /\ out' = out)]_vars
    /\ [](error # NoError => state.name # "End")

C35_PatternEndedInsideRange ==
    /\ pattern = <<LBRACKET, LOWER_A, DASH>>
    /\ error.kind = "UnclosedClass"
    /\ last.consumed = <<>>

\* the members of an accumulator, whatever their order and multiplicity
Members(acc) == {acc.items[i] : i \in 1..Len(acc.items)}

\* the accumulators with the negation flag and the members of acc: the members
\* in every order, with and without one of them written twice
Rearranged(acc) ==
    {NewAcc(acc.negated, p \o d) :
        p \in Perms(Members(acc)),
        d \in {<<>>} \cup {<<x>> : x \in Members(acc)}}

\* `[`, `^` if negated, the characters other than the dash in increasing order
\* once each, the ranges in increasing order once each, the dash if it is a
\* member, `]`
CanonicalClass(negated, members) ==
    LET cs == SortedSeq({<<m.a>> : m \in {x \in members : x.t = "Char" /\ x.a # DASH}})
        rs == SortedSeq({<<m.a, m.b>> : m \in {x \in members : x.t = "Range"}})
    IN  <<LBRACKET>> \o (IF negated THEN <<CARET>> ELSE <<>>)
            \o Concat([i \in 1..Len(cs) |-> escape_in_class(cs[i][1])])
            \o Concat([i \in 1..Len(rs) |->
                          escape_in_class(rs[i][1]) \o <<DASH>> \o escape_in_class(rs[i][2])])
            \o (IF Char(DASH) \in members THEN <<DASH>> ELSE <<>>)
            \o <<RBRACKET>>

\* C36: the bracket expression emitted when a class closes is the one every
\* rearrangement of its members compiles to, and it holds the characters
\* sorted once each, then the ranges sorted once each, then the dash.
C36_ClassOutputCanonical ==
    last.closed # <<>> =>
        /\ \A r \in Rearranged(last.closed[1]) : close_class(r) = last.emitted[1]
        /\ last.emitted[1] =
               CanonicalClass(last.closed[1].negated, Members(handle_slash(last.closed[1])))

C36_UnsortedRepeatedMembersClosed ==
    /\ pattern = <<LBRACKET, LOWER_A, BANG, LOWER_A, DASH, RBRACKET>>
    /\ last.emitted = << <<LBRACKET, BANG, LOWER_A, DASH, RBRACKET>> >>

\* the last transition was handle_escape consuming chr after a top-level `\`
EscapeRead(chr) == last.handler = "handle_escape" /\ last.consumed = <<chr>>

\* the character `\chr` stands for: the control character of the letters
\* a b e f n r t v, the character itself otherwise
Meant(chr) ==
    CASE chr = 97 -> 7
      [] chr = 98 -> 8
      [] chr = 101 -> 27
      [] chr = 102 -> 12
      [] chr = 110 -> 10
      [] chr = 114 -> 13
      [] chr = 116 -> 9
      [] chr = 118 -> 11
      [] OTHER -> chr

\* the texts of at most one character, control characters included, and the
\* meant character twice
EscapeProbes(chr) ==
    SeqsUpTo(Alphabet \cup EscapeChars \cup {Meant(c) : c \in EscapeChars}, 1)
        \cup {<<Meant(chr), Meant(chr)>>}

\* C37: the fragment emitted for a top-level `\chr` matches exactly the one
\* character `\chr` stands for, whatever chr is.
C37_EscapesMatchMeantCharacter ==
    \A chr \in Alphabet \cup EscapeChars :
        EscapeRead(chr) =>
            \A t \in EscapeProbes(chr) : is_match(last.emitted[1], t) <=> t = <<Meant(chr)>>

\* the transition read exactly one character of the pattern
ConsumesOne == Len(pattern') = Len(pattern) + 1

\* the transition found the pattern at its end: nothing is read and the parse
\* is over, at End or with an error
ObservesEnd == pattern' = pattern /\ (state'.name = "End" \/ error' # NoError)

\* the first transition: `^` is emitted and nothing is read
LeavesStart == pattern' = pattern /\ state.name = "Start" /\ state'.name = "Literal"

AtMostOneFragment == Len(out') \in {Len(out), Len(out) + 1}

\* C38 as stated: every transition consumes exactly one character or observes
\* the end of the pattern, and emits at most one fragment.
C38_EveryTransitionReads ==
    [][(ConsumesOne \/ ObservesEnd) /\ AtMostOneFragment]_vars

\* C38, amended: every transition but the first consumes exactly one character
\* or observes the end of the pattern, the first reads nothing, each emits at
\* most one fragment; no transition leaves End or an error and the parser is
\* never stuck before them, so that a pattern of n characters is compiled in
\* at most n + 2 transitions.
C38_TransitionsReadButTheFirst ==
    /\ [][/\ ConsumesOne \/ ObservesEnd \/ LeavesStart
          /\ AtMostOneFragment
          /\ ~GlobStopped]_vars
    /\ [](~GlobStopped => ENABLED GlobNext)

C38_WholePatternCompiled ==
    /\ state.name = "End"
    /\ pattern = <<LOWER_A, STAR, QMARK, LOWER_A>>
    /\ Len(out) = 6

====
